---- MODULE Spec2Model ----
(***************************************************************************)
(* Model of the client-side runtime of the Customer Retention dashboard:  *)
(* the AppProvider state container (upload, task polling, normalisation,  *)
(* filter/sort effect) and the pure helpers it calls.                     *)
(*                                                                         *)
(* One step of the model is one JavaScript task: an event handler, a      *)
(* timer callback or the continuation of an awaited promise, together     *)
(* with the React render and the effects that task causes.                *)
(*                                                                         *)
(* Time is kept as the code reads it, as the time elapsed since the       *)
(* polling effect last set pollingStartTimeRef; the effect resets it and  *)
(* the ticks of the interval advance it, by one interval or by more when  *)
(* the timer fires late.                                                   *)
(*                                                                         *)
(* The grid that renders a view (VirtualizedCustomerGrid with the list    *)
(* it mounts) and normalizeCustomerData called on its own have their own  *)
(* specifications, SpecGrid and SpecNormalize; the other specifications   *)
(* leave their variables alone, as no page under src/ renders the grid.   *)
(* SpecColumns is the grid under resizes alone, at the widths around the  *)
(* breakpoints.  SpecView runs the filter/sort effect on its own, on      *)
(* entities normalized from drawn results and on drawn queries.           *)
(*                                                                         *)
(* Text values that the code inspects character by character (ids,        *)
(* filter values) are sequences of one-character strings.  Scores are     *)
(* fixed-point numbers in hundredths (9500 is 95.00).                     *)
(***************************************************************************)
EXTENDS Integers, Sequences, FiniteSets, TLC

\* ------------------------------------------------------------------ bounds
MaxUploads == 2        \* uploads (handleFileSelect calls) in one run
MaxInFlight == 2       \* status checks awaiting their response
MaxOnTimeTicks == 1    \* ticks of one polling loop that fire exactly on time
MaxEntries == 2        \* entries of customer_churn in a payload normalized on its own
MaxGridEntities == 9   \* entities of a view given to the grid
MaxVisibleStop == 2    \* the furthest row the viewport is scrolled to
MaxViewEntities == 2   \* entities drawn for the filter/sort effect on its own

\* ------------------------------------------------------- program constants
POLLING_INTERVAL == 5000
MAX_POLLING_TIME == 30 * 60 * 1000

NoTask == 0            \* taskId === null
NoHandle == 0          \* pollingIntervalRef.current === null
NoResult == 0          \* results === null
NULL == "null"         \* null in a text-valued state (error, status)

TimeoutMessage == "Pipeline processing took too long. Please try again or contact support."
PipelineFailedMessage == "Pipeline processing failed."
StatusCheckFallback == "Error checking pipeline status."
UploadFallback == "An error occurred while uploading the file."
TaskNotFoundMessage == "Task not found. It may have expired or been cleaned up."
UnknownErrorMessage == "Unknown error occurred"
NoResponseMessage == "No response from server. Please check if the backend is running."
ServerDetail == "server detail"

\* --------------------------------------------------------------- text values
EmptyText == << >>

UpperToLower ==
  [c \in {"C", "D", "S", "L", "M", "E"} |->
     CASE c = "C" -> "c" [] c = "D" -> "d" [] c = "S" -> "s"
       [] c = "L" -> "l" [] c = "M" -> "m" [] c = "E" -> "e"]

\* String.prototype.toLowerCase
ToLowerCase(t) ==
  [i \in 1..Len(t) |-> IF t[i] \in DOMAIN UpperToLower THEN UpperToLower[t[i]] ELSE t[i]]

\* String.prototype.includes
Includes(t, q) ==
  \E i \in 0..(Len(t) - Len(q)) : \A j \in 1..Len(q) : t[i + j] = q[j]

Digits == {"0", "1", "2", "3", "4", "5", "6", "7", "8", "9"}

DigitValue(c) ==
  CASE c = "0" -> 0 [] c = "1" -> 1 [] c = "2" -> 2 [] c = "3" -> 3 [] c = "4" -> 4
    [] c = "5" -> 5 [] c = "6" -> 6 [] c = "7" -> 7 [] c = "8" -> 8 [] c = "9" -> 9

\* parseInt(id.match(/\d+/)?.[0] || '0'): the value of the first run of digits
RECURSIVE DigitRunValue(_, _, _)
DigitRunValue(t, i, acc) ==
  IF i > Len(t) \/ t[i] \notin Digits THEN acc
  ELSE DigitRunValue(t, i + 1, 10 * acc + DigitValue(t[i]))

FirstDigitIndex(t) ==
  IF \E i \in 1..Len(t) : t[i] \in Digits
  THEN CHOOSE i \in 1..Len(t) : t[i] \in Digits /\ \A j \in 1..(i - 1) : t[j] \notin Digits
  ELSE 0

FirstNumber(t) ==
  IF FirstDigitIndex(t) = 0 THEN 0 ELSE DigitRunValue(t, FirstDigitIndex(t), 0)

\* collation rank of a character for String.prototype.localeCompare
CharRank(c) ==
  CASE c = "-" -> 0
    [] c \in Digits -> 1 + DigitValue(c)
    [] c = "c" -> 20 [] c = "C" -> 21
    [] c = "d" -> 22 [] c = "D" -> 23
    [] c = "e" -> 24 [] c = "E" -> 25
    [] c = "l" -> 26 [] c = "L" -> 27
    [] c = "m" -> 28 [] c = "M" -> 29
    [] c = "s" -> 30 [] c = "S" -> 31
    [] OTHER -> 40

\* a.localeCompare(b) < 0, = 0, > 0 as -1, 0, 1
RECURSIVE LocaleCompareFrom(_, _, _)
LocaleCompareFrom(a, b, i) ==
  IF i > Len(a) /\ i > Len(b) THEN 0
  ELSE IF i > Len(a) THEN -1
  ELSE IF i > Len(b) THEN 1
  ELSE IF CharRank(a[i]) < CharRank(b[i]) THEN -1
  ELSE IF CharRank(a[i]) > CharRank(b[i]) THEN 1
  ELSE LocaleCompareFrom(a, b, i + 1)

LocaleCompare(a, b) == LocaleCompareFrom(a, b, 1)

\* ------------------------------------------------------------ normalizeData
\* obj[key] for a mapping of text values; a missing key reads as the empty
\* text, which like undefined is falsy
Get(obj, key) == IF key \in DOMAIN obj THEN obj[key] ELSE EmptyText

\* a || b for text values
OrElse(a, b) == IF a # EmptyText THEN a ELSE b

\* array[index] || '' for an array of plain strings (index is 0-based)
\* variant: the array is read one position early
AtOrEmpty_OneBased(arr, index) == IF index \in 1..Len(arr) THEN arr[index] ELSE ""
AtOrEmpty(arr, index) == IF index + 1 \in 1..Len(arr) THEN arr[index + 1] ELSE ""

\* variant: the lower boundary belongs to low
calculateRiskLevel_LowAt40(churnProbability) ==
  IF churnProbability <= 4000 THEN "low"
  ELSE IF churnProbability <= 7000 THEN "medium"
  ELSE "high"
calculateRiskLevel(churnProbability) ==
  IF churnProbability < 4000 THEN "low"
  ELSE IF churnProbability <= 7000 THEN "medium"
  ELSE "high"

\* typeof x === 'number' ? x : parseFloat(x) || 0
\* a raw score is [isNumber, parses, v]: v is the number, or the number the
\* string parses to
ParseScore(raw) ==
  IF raw.isNumber THEN raw.v
  ELSE IF raw.parses /\ raw.v # 0 THEN raw.v
  ELSE 0

\* if (churnProbability <= 1) churnProbability = churnProbability * 100
\* variant: a score of exactly 1 is not scaled
ScaleScore_BelowOne(cp) == IF cp < 100 THEN cp * 100 ELSE cp
ScaleScore(cp) == IF cp <= 100 THEN cp * 100 ELSE cp

\* the decimal digits of a natural number (template literal ${n})
RECURSIVE DecimalText(_)
DecimalText(n) ==
  IF n < 10 THEN << CHOOSE d \in Digits : DigitValue(d) = n >>
  ELSE DecimalText(n \div 10) \o << CHOOSE d \in Digits : DigitValue(d) = n % 10 >>

\* customer.id || `customer-${index + 1}`
\* variant: the placeholder carries the 0-based index
PlaceholderId_ZeroBased(index) == <<"c", "-">> \o DecimalText(index)
PlaceholderId(index) == <<"c", "-">> \o DecimalText(index + 1)

NoInsights == [feature_values |-> << >>, shap_feature_values |-> << >>]

NormalizeOne(result, customer, index) ==
  LET churnProbability == ScaleScore(ParseScore(customer.churn_probability))
      customerId == OrElse(customer.id, PlaceholderId(index))
      insights == IF customerId \in DOMAIN result.customer_insights
                  THEN result.customer_insights[customerId] ELSE NoInsights
      featureValues == insights.feature_values
  IN [id |-> customerId,
      churn_probability |-> churnProbability,
      risk_level |-> calculateRiskLevel(churnProbability),
      reason |-> AtOrEmpty(result.customer_reasons, index),
      strategy |-> AtOrEmpty(result.retention_strategies, index),
      feature_values |-> featureValues,
      shap_feature_values |-> insights.shap_feature_values,
      contract_type |-> OrElse(Get(featureValues, "Contract"), Get(featureValues, "contract")),
      internet_service |-> OrElse(Get(featureValues, "InternetService"),
                                  Get(featureValues, "internet_service"))]

\* normalizeCustomerData throws a TypeError: destructuring null, calling map
\* on null or on a value that has no map, reading a property of a null entry
normalizeThrows(result) ==
  \/ result.result_kind = "null"
  \/ /\ result.result_kind = "object"
     /\ \/ result.churn_kind \in {"null", "other"}
        \/ /\ result.churn_kind = "array"
           /\ \E i \in 1..Len(result.customer_churn) : result.customer_churn[i].kind = "null"

\* the array normalizeCustomerData returns when it does not throw; every
\* property of a primitive result is undefined and takes its default
normalizeCustomerData(result) ==
  IF result.result_kind = "object" /\ result.churn_kind = "array"
  THEN [i \in 1..Len(result.customer_churn) |->
          NormalizeOne(result, result.customer_churn[i], i - 1)]
  ELSE << >>

\* ------------------------------------------------------------ calculateKPIs
\* customers.filter(test).length is Len(SelectSeq(customers, test))
IsCritical(c) == c.risk_level = "high" /\ c.churn_probability >= 9000
\* variant: the high bucket reaches up to 90 included
IsHigh_UpTo90(c) ==
  c.risk_level = "high" /\ c.churn_probability >= 7000 /\ c.churn_probability <= 9000
IsHigh(c) ==
  c.risk_level = "high" /\ c.churn_probability >= 7000 /\ c.churn_probability < 9000
IsMedium(c) == c.risk_level = "medium"
IsLow(c) == c.risk_level = "low"

riskDistribution(customers) ==
  [critical |-> Len(SelectSeq(customers, IsCritical)),
   high |-> Len(SelectSeq(customers, IsHigh)),
   medium |-> Len(SelectSeq(customers, IsMedium)),
   low |-> Len(SelectSeq(customers, IsLow))]

\* customers.reduce((sum, customer) => sum + customer.churn_probability, 0)
RECURSIVE SumScores(_)
SumScores(customers) ==
  IF customers = << >> THEN 0
  ELSE Head(customers).churn_probability + SumScores(Tail(customers))

\* Math.round(a / b) for b > 0: the nearest integer, a half rounds up
RoundDiv(a, b) == (2 * a + b) \div (2 * b)

\* avgScore is in tenths (Math.round(avgScore * 10) / 10 of a score in
\* hundredths), retentionSuccess in whole percent
calculateKPIs(customers) ==
  IF Len(customers) = 0
  THEN [criticalRisks |-> 0, avgScore |-> 0, retentionSuccess |-> 0, totalCustomers |-> 0,
        riskDistribution |-> [critical |-> 0, high |-> 0, medium |-> 0, low |-> 0]]
  ELSE [criticalRisks |-> Len(SelectSeq(customers, IsCritical)),
        avgScore |-> RoundDiv(SumScores(customers), 10 * Len(customers)),
        retentionSuccess |->
          RoundDiv(100 * Len(SelectSeq(customers, IsLow)), Len(customers)),
        totalCustomers |-> Len(customers),
        riskDistribution |-> riskDistribution(customers)]

\* ------------------------------------------------- filter / sort effect body
\* variant: critical starts above 90
TierKeeps_CriticalAbove90(activeFilter, c) ==
  IF activeFilter = "critical" THEN c.risk_level = "high" /\ c.churn_probability > 9000
  ELSE IF activeFilter = "high"
       THEN c.risk_level = "high" /\ c.churn_probability >= 7000 /\ c.churn_probability < 9000
  ELSE IF activeFilter = "low" THEN c.risk_level = "low"
  ELSE TRUE
TierKeeps(activeFilter, c) ==
  IF activeFilter = "critical" THEN c.risk_level = "high" /\ c.churn_probability >= 9000
  ELSE IF activeFilter = "high"
       THEN c.risk_level = "high" /\ c.churn_probability >= 7000 /\ c.churn_probability < 9000
  ELSE IF activeFilter = "low" THEN c.risk_level = "low"
  ELSE TRUE

PlanKeeps(planTypeFilter, c) ==
  LET planType == OrElse(c.internet_service,
                    OrElse(Get(c.feature_values, "InternetService"),
                           Get(c.feature_values, "internet_service")))
  IN planTypeFilter # EmptyText =>
       (planType # EmptyText /\ ToLowerCase(planType) = ToLowerCase(planTypeFilter))

\* variant: the contract type is compared as it is written
ContractKeeps_CaseSensitive(contractTypeFilter, c) ==
  LET contractType == OrElse(c.contract_type,
                        OrElse(Get(c.feature_values, "Contract"),
                               Get(c.feature_values, "contract")))
  IN contractTypeFilter # EmptyText =>
       (contractType # EmptyText /\ contractType = contractTypeFilter)
ContractKeeps(contractTypeFilter, c) ==
  LET contractType == OrElse(c.contract_type,
                        OrElse(Get(c.feature_values, "Contract"),
                               Get(c.feature_values, "contract")))
  IN contractTypeFilter # EmptyText =>
       (contractType # EmptyText /\ ToLowerCase(contractType) = ToLowerCase(contractTypeFilter))

RegionKeeps(regionFilter, c) ==
  LET region == OrElse(Get(c.feature_values, "Region"), Get(c.feature_values, "region"))
  IN regionFilter # EmptyText =>
       (region # EmptyText /\ ToLowerCase(region) = ToLowerCase(regionFilter))

\* variant: the contract type is searched as well
SearchKeeps_AlsoContract(searchQuery, c) ==
  searchQuery # EmptyText =>
    \/ Includes(ToLowerCase(c.id), ToLowerCase(searchQuery))
    \/ Includes(ToLowerCase(c.contract_type), ToLowerCase(searchQuery))
SearchKeeps(searchQuery, c) ==
  searchQuery # EmptyText => Includes(ToLowerCase(c.id), ToLowerCase(searchQuery))

\* the comparator the effect hands to Array.prototype.sort for a sort type
\* variant: id-asc compares the ids as strings only
Compare_IdsAsStrings(sortType, a, b) ==
  IF sortType = "probability-desc" \/ sortType = "highest-risk"
  THEN b.churn_probability - a.churn_probability
  ELSE IF sortType = "lowest-risk" THEN a.churn_probability - b.churn_probability
  ELSE LocaleCompare(a.id, b.id)
Compare(sortType, a, b) ==
  IF sortType = "probability-desc" \/ sortType = "highest-risk"
  THEN b.churn_probability - a.churn_probability
  ELSE IF sortType = "lowest-risk" THEN a.churn_probability - b.churn_probability
  ELSE IF FirstNumber(a.id) # FirstNumber(b.id) THEN FirstNumber(a.id) - FirstNumber(b.id)
  ELSE LocaleCompare(a.id, b.id)

\* Array.prototype.sort: stable, a positive comparison puts b before a
\* variant: elements that compare equal change places
RECURSIVE InsertSorted_TiesSwap(_, _, _)
InsertSorted_TiesSwap(sorted, x, sortType) ==
  IF sorted = << >> THEN <<x>>
  ELSE IF Compare(sortType, sorted[Len(sorted)], x) >= 0
       THEN InsertSorted_TiesSwap(SubSeq(sorted, 1, Len(sorted) - 1), x, sortType)
              \o <<sorted[Len(sorted)]>>
       ELSE sorted \o <<x>>
RECURSIVE InsertSorted(_, _, _)
InsertSorted(sorted, x, sortType) ==
  IF sorted = << >> THEN <<x>>
  ELSE IF Compare(sortType, sorted[Len(sorted)], x) > 0
       THEN InsertSorted(SubSeq(sorted, 1, Len(sorted) - 1), x, sortType)
              \o <<sorted[Len(sorted)]>>
       ELSE sorted \o <<x>>

RECURSIVE StableSort(_, _)
StableSort(s, sortType) ==
  IF s = << >> THEN << >>
  ELSE InsertSorted(StableSort(SubSeq(s, 1, Len(s) - 1), sortType), s[Len(s)], sortType)

SortBy(sortType, filtered) ==
  IF sortType \in {"probability-desc", "highest-risk", "lowest-risk", "id-asc"}
  THEN StableSort(filtered, sortType)
  ELSE filtered

\* a query is [activeFilter, searchQuery, sortType, planTypeFilter,
\* contractTypeFilter, regionFilter]
\* variant: the id sort works on the entities before the search is applied
computeView_IdSortSkipsSearch(customers, q) ==
  LET Keep(c) == /\ TierKeeps(q.activeFilter, c)
                 /\ PlanKeeps(q.planTypeFilter, c)
                 /\ ContractKeeps(q.contractTypeFilter, c)
                 /\ RegionKeeps(q.regionFilter, c)
                 /\ (q.sortType # "id-asc" => SearchKeeps(q.searchQuery, c))
  IN SortBy(q.sortType, SelectSeq(customers, Keep))
computeView(customers, q) ==
  LET Keep(c) == /\ TierKeeps(q.activeFilter, c)
                 /\ PlanKeeps(q.planTypeFilter, c)
                 /\ ContractKeeps(q.contractTypeFilter, c)
                 /\ RegionKeeps(q.regionFilter, c)
                 /\ SearchKeeps(q.searchQuery, c)
  IN SortBy(q.sortType, SelectSeq(customers, Keep))

\* ------------------------------------------------------ backend (external)
\* the raw result the backend reports for a finished job; job t reports
\* RawResult(t)
Txt_C2 == <<"C", "-", "2">>
Txt_c11 == <<"c", "-", "1", "1">>
Txt_M == <<"M">>
Txt_DSL == <<"D", "S", "L">>
Txt_E == <<"E">>

Score(isNumber, parses, v) == [isNumber |-> isNumber, parses |-> parses, v |-> v]

RawResult(t) ==
  IF t = 1
  THEN [result_kind |-> "object",
        churn_kind |-> "array",
        customer_churn |->
          << [kind |-> "object", id |-> Txt_C2,
              churn_probability |-> Score(TRUE, TRUE, 95)],
             [kind |-> "object", id |-> EmptyText,
              churn_probability |-> Score(TRUE, TRUE, 7200)],
             [kind |-> "object", id |-> Txt_c11,
              churn_probability |-> Score(FALSE, TRUE, 3900)] >>,
        customer_reasons |-> <<"r1", "r2">>,
        retention_strategies |-> <<"s1">>,
        customer_insights |->
          (Txt_C2 :> [feature_values |->
                        [Contract |-> Txt_M, InternetService |-> Txt_DSL, Region |-> Txt_E],
                      shap_feature_values |-> << >>])]
  ELSE IF t = 2
  THEN [result_kind |-> "object",
        churn_kind |-> "array",
        customer_churn |->
          << [kind |-> "object", id |-> EmptyText,
              churn_probability |-> Score(TRUE, TRUE, 9100)],
             [kind |-> "object", id |-> Txt_c11,
              churn_probability |-> Score(FALSE, FALSE, 0)] >>,
        customer_reasons |-> << >>,
        retention_strategies |-> <<"s1", "s2", "s3">>,
        customer_insights |-> << >>]
  ELSE [result_kind |-> "object",
        churn_kind |-> "missing",
        customer_churn |-> << >>,
        customer_reasons |-> << >>,
        retention_strategies |-> << >>,
        customer_insights |-> << >>]

\* the scores a payload can carry: numbers, strings that parse to a number
\* and strings that do not (raw values in hundredths: 40 is 0.40)
RawNumbers == {-50, 0, 40, 70, 100, 101, 3999, 4000, 7000, 7001, 10000, 15000}
RawScores ==
  {Score(TRUE, TRUE, v) : v \in RawNumbers}
    \cup {Score(FALSE, TRUE, v) : v \in {0, 39, 7200}}
    \cup {Score(FALSE, FALSE, 0)}
RawIds == {EmptyText, Txt_C2}
RawEntries == [kind : {"object"}, id : RawIds, churn_probability : RawScores]

\* the sequences over S of length at most n
SeqUpTo(S, n) == UNION {[1..k -> S] : k \in 0..n}

\* a payload with the given customer_churn, customer_reasons and
\* retention_strategies arrays
PayloadWith(churn, reasons, strategies) ==
  [result_kind |-> "object",
   churn_kind |-> "array",
   customer_churn |-> churn,
   customer_reasons |-> reasons,
   retention_strategies |-> strategies,
   customer_insights |->
     (Txt_C2 :> [feature_values |-> [Contract |-> Txt_M],
                 shap_feature_values |-> << >>])]

\* a payload with the given customer_churn array
PayloadOf(churn) == PayloadWith(churn, <<"r1">>, << >>)

\* payloads whose three arrays differ in length: the reasons and strategies
\* arrays are shorter than, as long as or longer than customer_churn, and a
\* reason can be the empty string
PlainEntries ==
  {[kind |-> "object", id |-> Txt_C2, churn_probability |-> Score(TRUE, TRUE, 95)],
   [kind |-> "object", id |-> EmptyText, churn_probability |-> Score(TRUE, TRUE, 3999)]}
UnequalPayloads ==
  {PayloadWith(churn, reasons, strategies) :
     churn \in SeqUpTo(PlainEntries, MaxEntries),
     reasons \in SeqUpTo({"", "r1", "r2"}, MaxEntries + 1),
     strategies \in SeqUpTo({"s1"}, MaxEntries + 1)}

Payloads == {PayloadOf(churn) : churn \in SeqUpTo(RawEntries, MaxEntries)}

\* payloads whose scores lie on both sides of every bucket boundary of the
\* risk distribution: 40, 70 and 90
BoundaryPayloads ==
  {PayloadOf(churn) :
     churn \in SeqUpTo({[kind |-> "object", id |-> EmptyText,
                         churn_probability |-> Score(TRUE, TRUE, v)] :
                          v \in {3999, 4000, 7000, 7001, 8999, 9000}}, MaxEntries)}

\* payloads whose customer_insights has an entry under the key a placeholder
\* id takes (customer-2), next to the entry of a raw id
PlaceholderKeyedPayloads ==
  {[PayloadOf(churn) EXCEPT
      !.customer_insights =
         @ @@ (<<"c", "-", "2">> :> [feature_values |-> [contract |-> <<"m">>],
                                     shap_feature_values |-> [contract |-> <<"3">>]])] :
     churn \in SeqUpTo(PlainEntries, MaxEntries)}

\* payloads of the wrong type. result_kind tells whether the result is an
\* object, null or a primitive (a number, a string); churn_kind whether
\* customer_churn is an array, missing (undefined), null or another value
\* that is not an array (a string, an object); the kind of an entry whether it
\* is an object, null or a primitive. A property read of a primitive yields
\* undefined: its id is falsy like the empty text and its score does not parse.
MalformedEntries ==
  {[kind |-> k, id |-> EmptyText, churn_probability |-> Score(FALSE, FALSE, 0)] :
     k \in {"null", "number"}}

NotAnArray(resultKind, churnKind) ==
  [result_kind |-> resultKind,
   churn_kind |-> churnKind,
   customer_churn |-> << >>,
   customer_reasons |-> << >>,
   retention_strategies |-> << >>,
   customer_insights |-> << >>]

MalformedPayloads ==
  {NotAnArray("null", "missing"), NotAnArray("primitive", "missing")}
    \cup {NotAnArray("object", k) : k \in {"missing", "null", "other"}}
    \cup {PayloadOf(churn) : churn \in
            {c \in SeqUpTo(PlainEntries \cup MalformedEntries, MaxEntries) :
               \E i \in 1..Len(c) : c[i] \in MalformedEntries}}

\* what the transport can answer to one request
OutcomeKinds == {"ok", "http404", "http", "noresponse", "setup"}
StatusValues == {"pending", "processing", "done", "failed"}
Details == {"", ServerDetail}

StatusOutcomes ==
  [kind : {"ok"}, status : {"pending", "processing", "done"}, detail : {""}]
    \cup [kind : {"ok"}, status : {"failed"}, detail : Details]
    \cup [kind : {"http", "http404"}, status : {""}, detail : Details]
    \cup [kind : {"noresponse"}, status : {""}, detail : {""}]

SubmitOutcomes ==
  [kind : {"ok", "noresponse"}, status : {""}, detail : {""}]
    \cup [kind : {"http"}, status : {""}, detail : Details]

\* ------------------------------------------------------------------- api.js
\* error.response.data?.detail || error.response.data?.error || 'Unknown error occurred'
ServerMessage(o) == IF o.detail # "" THEN o.detail ELSE UnknownErrorMessage

\* variant: a request without response is not reported
runPipeline_SwallowsNoResponse(o) ==
  IF o.kind \in {"ok", "noresponse"} THEN "" ELSE ServerMessage(o)
\* runPipeline: the message of the Error it throws, "" when it returns
runPipeline(o) ==
  IF o.kind = "ok" THEN ""
  ELSE IF o.kind = "noresponse" THEN NoResponseMessage
  ELSE ServerMessage(o)

\* variant: a 404 is reported like any other error status
getPipelineStatus_NotFoundAsServerError(o) ==
  IF o.kind = "ok" THEN ""
  ELSE IF o.kind = "noresponse" THEN NoResponseMessage
  ELSE ServerMessage(o)
\* variant: a request without response is not reported
getPipelineStatus_SwallowsNoResponse(o) ==
  IF o.kind \in {"ok", "noresponse"} THEN ""
  ELSE IF o.kind = "http404" THEN TaskNotFoundMessage
  ELSE ServerMessage(o)
\* getPipelineStatus: the message of the Error it throws, "" when it returns
getPipelineStatus(o) ==
  IF o.kind = "ok" THEN ""
  ELSE IF o.kind = "http404" THEN TaskNotFoundMessage
  ELSE IF o.kind = "noresponse" THEN NoResponseMessage
  ELSE ServerMessage(o)

\* ---------------------------------------------------------------- the state
VARIABLES
  mounted,              \* AppProvider is mounted
  file, loading, error, results, taskId, status,
  normalizedCustomers, filteredCustomers,
  activeFilter, expandedCardId, searchQuery, sortType,
  planTypeFilter, contractTypeFilter, regionFilter,
  pollingIntervalRef,   \* handle of the interval, or NoHandle
  cleanupArmed,         \* the last run of the polling effect returned a cleanup
  intervals,            \* the browser's live intervals: [h, task, due], due
                        \* counted like elapsed from pollingStartTimeRef.current
  nextHandle,           \* the handle the next setInterval returns
  elapsed,              \* Date.now() - pollingStartTimeRef.current
  uploadsStarted,       \* handleFileSelect calls so far; upload k gets task id k
  submitInFlight,       \* uploads whose runPipeline request awaits its response
  statusInFlight,       \* per task id: status checks awaiting their response
  \* VirtualizedCustomerGrid and the list it renders
  customers,            \* the customers prop: the view the grid is given
  columnCount,
  innerWidth,           \* window.innerWidth
  resizeTimeout,        \* the debounce timer of handleResize is armed
  listMounted,          \* the grid rendered its List (listRef.current is set)
  cachedHeights,        \* the List's cache: the measured height of rows 0, 1, ..
  visibleStop,          \* the last row the viewport (with overscan) reaches
  lastReset,            \* the row the last step gave to resetAfterIndex, or NoReset
  \* normalizeCustomerData called on its own
  rawResult,            \* the argument
  normalized,           \* the returned array
  normalizeReturned,    \* the call was made and returned
  normalizeThrew,       \* the call was made and threw
  effectOutcome,        \* the normalize effect on rawResult: "none", "committed", "threw"
  \* the filter/sort effect on its own
  viewCustomers,        \* normalizedCustomers as the effect finds it
  viewQuery,            \* the six query values of the render
  viewFiltered,         \* the array handed to setFilteredCustomers
  viewPhase             \* "idle", "ran", "reran"

pollerVars == <<mounted, file, loading, error, results, taskId, status,
                pollingIntervalRef, cleanupArmed, intervals,
                nextHandle, elapsed, uploadsStarted, submitInFlight, statusInFlight>>
dataVars == <<normalizedCustomers, filteredCustomers>>
queryVars == <<activeFilter, expandedCardId, searchQuery, sortType,
               planTypeFilter, contractTypeFilter, regionFilter>>
gridVars == <<customers, columnCount, innerWidth, resizeTimeout, listMounted,
              cachedHeights, visibleStop, lastReset>>
normalizerVars == <<rawResult, normalized, normalizeReturned, normalizeThrew, effectOutcome>>
viewVars == <<viewCustomers, viewQuery, viewFiltered, viewPhase>>
providerVars == <<pollerVars, dataVars, queryVars>>
vars == <<pollerVars, dataVars, queryVars, gridVars, normalizerVars, viewVars>>

Tasks == 1..MaxUploads

Query == [activeFilter |-> activeFilter, searchQuery |-> searchQuery, sortType |-> sortType,
          planTypeFilter |-> planTypeFilter, contractTypeFilter |-> contractTypeFilter,
          regionFilter |-> regionFilter]

InitialQuery == [activeFilter |-> "all", searchQuery |-> EmptyText,
                 sortType |-> "probability-desc", planTypeFilter |-> EmptyText,
                 contractTypeFilter |-> EmptyText, regionFilter |-> EmptyText]

\* AppProvider after its first render and effects
ProviderInit ==
  /\ mounted = TRUE
  /\ file = 0
  /\ loading = FALSE
  /\ error = NULL
  /\ results = NoResult
  /\ taskId = NoTask
  /\ status = NULL
  /\ normalizedCustomers = << >>
  /\ filteredCustomers = << >>
  /\ activeFilter = "all"
  /\ expandedCardId = EmptyText
  /\ searchQuery = EmptyText
  /\ sortType = "probability-desc"
  /\ planTypeFilter = EmptyText
  /\ contractTypeFilter = EmptyText
  /\ regionFilter = EmptyText
  /\ pollingIntervalRef = NoHandle
  /\ cleanupArmed = FALSE
  /\ intervals = {}
  /\ nextHandle = 1
  /\ elapsed = 0
  /\ uploadsStarted = 0
  /\ submitInFlight = {}
  /\ statusInFlight = [t \in Tasks |-> 0]

NoReset == -1          \* the step made no resetAfterIndex call

\* no VirtualizedCustomerGrid is rendered
GridIdle ==
  /\ customers = << >>
  /\ columnCount = 4
  /\ innerWidth = 1280
  /\ resizeTimeout = FALSE
  /\ listMounted = FALSE
  /\ cachedHeights = << >>
  /\ visibleStop = 0
  /\ lastReset = NoReset

\* normalizeCustomerData is called by the normalize effect only
NormalizerIdle ==
  /\ rawResult = RawResult(0)
  /\ normalized = << >>
  /\ normalizeReturned = FALSE
  /\ normalizeThrew = FALSE
  /\ effectOutcome = "none"

\* the filter/sort effect of the first render finds no entities
ViewIdle ==
  /\ viewCustomers = << >>
  /\ viewQuery = InitialQuery
  /\ viewFiltered = << >>
  /\ viewPhase = "idle"

Init == ProviderInit /\ GridIdle /\ NormalizerIdle /\ ViewIdle

\* status checks awaiting their response, over all tasks
RECURSIVE SumUpTo(_, _)
SumUpTo(f, n) == IF n = 0 THEN 0 ELSE f[n] + SumUpTo(f, n - 1)
InFlightTotal == SumUpTo(statusInFlight, MaxUploads)

\* ------------------------------------------------------------ React runtime
\* clearInterval(h): clearing null or a dead handle does nothing
clearInterval(iv, h) == {i \in iv : i.h # h}

\* a state setter called on an unmounted component changes nothing
SetState(old, new) == IF mounted THEN new ELSE old

\* err.message || fallback
OrFallback(message, fallback) == IF message # "" THEN message ELSE fallback

\* the normalize effect (runs when results changes)
\* results && results.customer_churn
HasChurn(result) ==
  result.result_kind = "object" /\ result.churn_kind \in {"array", "other"}

\* the effect body for a result that is not null, when nothing throws
NormalizeEffectOn(result) ==
  IF HasChurn(result)
  THEN IF result.churn_kind = "array"
       THEN normalizeCustomerData(result)
       ELSE << >>
  ELSE << >>

\* the effect body throws when its call of normalizeCustomerData does
NormalizeEffectThrows(result) ==
  HasChurn(result) /\ result.churn_kind = "array" /\ normalizeThrows(result)

NormalizeEffect(r) ==
  IF r # NoResult THEN NormalizeEffectOn(RawResult(r)) ELSE << >>

\* the setInterval of the polling effect
NewInterval(h, t) == [h |-> h, task |-> t, due |-> POLLING_INTERVAL]

\* pollingStartTimeRef.current = Date.now(): times are counted from now on
Restart(iv, at) == {[i EXCEPT !.due = @ - at] : i \in iv}

\* cleanup returned by the polling effect
EffectCleanupRef(ref) == NoHandle
\* variant: the cleanup forgets the handle without clearing the interval
EffectCleanupIntervals_NoClear(iv, ref) == iv
EffectCleanupIntervals(iv, ref) == clearInterval(iv, ref)

\* the "clear any existing polling interval" of the polling effect body
EffectBodyIntervals(iv, ref) == clearInterval(iv, ref)

\* "Poll immediately" of the polling effect body: pollTaskStatus(taskId)
\* variant: the effect waits for the first tick
PollImmediately_Skipped(inFlight, t) == inFlight
PollImmediately(inFlight, t) == [inFlight EXCEPT ![t] = @ + 1]

\* The render after a task that called setTaskId(newTask), with the polling
\* effect it triggers.  ref0, iv0 and inFlight0 are the ref, the live
\* intervals and the outstanding status checks as the task itself left them,
\* at is the elapsed time when the task runs.
CommitTaskId(newTask, ref0, iv0, inFlight0, at) ==
  IF ~mounted \/ newTask = taskId
  THEN /\ taskId' = taskId
       /\ pollingIntervalRef' = ref0
       /\ intervals' = iv0
       /\ statusInFlight' = inFlight0
       /\ elapsed' = at
       /\ UNCHANGED <<cleanupArmed, nextHandle>>
  ELSE LET ref1 == IF cleanupArmed /\ ref0 # NoHandle THEN EffectCleanupRef(ref0) ELSE ref0
           iv1 == IF cleanupArmed /\ ref0 # NoHandle
                  THEN EffectCleanupIntervals(iv0, ref0) ELSE iv0
       IN /\ taskId' = newTask
          /\ IF newTask = NoTask
             THEN /\ pollingIntervalRef' = ref1
                  /\ intervals' = iv1
                  /\ statusInFlight' = inFlight0
                  /\ cleanupArmed' = FALSE
                  /\ elapsed' = at
                  /\ UNCHANGED nextHandle
             ELSE /\ elapsed' = 0
                  /\ statusInFlight' = PollImmediately(inFlight0, newTask)
                  /\ pollingIntervalRef' = nextHandle
                  /\ intervals' =
                       Restart(IF ref1 # NoHandle THEN EffectBodyIntervals(iv1, ref1) ELSE iv1, at)
                         \cup {NewInterval(nextHandle, newTask)}
                  /\ nextHandle' = nextHandle + 1
                  /\ cleanupArmed' = TRUE

\* variant: the filter/sort effect does not follow the normalize effect, the
\* view is left as the normalize effect set it
CommitResults_Unfiltered(newResults, q) ==
  IF ~mounted
  THEN UNCHANGED <<results, normalizedCustomers, filteredCustomers>>
  ELSE /\ results' = newResults
       /\ normalizedCustomers' = NormalizeEffect(newResults)
       /\ filteredCustomers' = NormalizeEffect(newResults)
\* The render after a task that set results and/or the data arrays, with the
\* normalize effect and the filter/sort effect, for the query q of that render.
CommitResults(newResults, q) ==
  IF ~mounted
  THEN UNCHANGED <<results, normalizedCustomers, filteredCustomers>>
  ELSE /\ results' = newResults
       /\ normalizedCustomers' = NormalizeEffect(newResults)
       /\ filteredCustomers' = computeView(NormalizeEffect(newResults), q)

\* ----------------------------------------------------------------- actions
\* variant: the search text survives an upload
HandleFileSelectReset_KeepsSearch ==
  /\ file' = uploadsStarted + 1
  /\ error' = NULL
  /\ status' = NULL
  /\ loading' = TRUE
  /\ expandedCardId' = EmptyText
  /\ activeFilter' = "all"
  /\ planTypeFilter' = EmptyText
  /\ contractTypeFilter' = EmptyText
  /\ regionFilter' = EmptyText
  /\ UNCHANGED <<sortType, searchQuery>>
\* handleFileSelect up to its await, and the render that follows
HandleFileSelectReset ==
  /\ file' = uploadsStarted + 1
  /\ error' = NULL
  /\ status' = NULL
  /\ loading' = TRUE
  /\ expandedCardId' = EmptyText
  /\ activeFilter' = "all"
  /\ searchQuery' = EmptyText
  /\ planTypeFilter' = EmptyText
  /\ contractTypeFilter' = EmptyText
  /\ regionFilter' = EmptyText
  /\ UNCHANGED sortType

\* "clear any existing polling" of handleFileSelect
\* variant: handleFileSelect forgets the handle without clearing the interval
HandleFileSelectIntervals_NoClear(iv, ref) == iv
HandleFileSelectIntervals(iv, ref) == clearInterval(iv, ref)

HandleFileSelect ==
  /\ mounted
  /\ uploadsStarted < MaxUploads
  /\ HandleFileSelectReset
  /\ CommitResults(NoResult, [InitialQuery EXCEPT !.sortType = sortType])
  /\ CommitTaskId(NoTask, NoHandle,
                  HandleFileSelectIntervals(intervals, pollingIntervalRef), statusInFlight,
                  elapsed)
  /\ UNCHANGED <<mounted, gridVars, normalizerVars, viewVars>>
  /\ uploadsStarted' = uploadsStarted + 1
  /\ submitInFlight' = submitInFlight \cup {uploadsStarted + 1}

\* handleFileSelect after its await: runPipeline returned or threw
SubmitResponse(k, o) ==
  /\ k \in submitInFlight
  /\ submitInFlight' = submitInFlight \ {k}
  /\ IF runPipeline(o) = ""
     THEN /\ InFlightTotal < MaxInFlight
          /\ CommitTaskId(k, pollingIntervalRef, intervals, statusInFlight, elapsed)
          /\ UNCHANGED <<error, loading>>
     ELSE /\ error' = SetState(error, OrFallback(runPipeline(o), UploadFallback))
          /\ loading' = SetState(loading, FALSE)
          /\ UNCHANGED <<taskId, pollingIntervalRef, intervals, statusInFlight,
                         cleanupArmed, elapsed, nextHandle>>
  /\ UNCHANGED <<mounted, file, results, status, uploadsStarted, dataVars, queryVars>>
  /\ UNCHANGED <<gridVars, normalizerVars, viewVars>>

\* variant: pollTaskStatus forgets the handle without clearing the interval
PollStopIntervals_NoClear(iv, ref) == iv
\* what pollTaskStatus does to the interval on done, failed and on a throw
PollStopIntervals(iv, ref) == clearInterval(iv, ref)

\* pollTaskStatus(t) after its await: getPipelineStatus returned or threw
StatusResponse(t, o) ==
  /\ statusInFlight[t] > 0
  /\ LET inFlight0 == [statusInFlight EXCEPT ![t] = @ - 1]
         stopped == PollStopIntervals(intervals, pollingIntervalRef)
     IN IF getPipelineStatus(o) # ""
        THEN /\ error' = SetState(error, OrFallback(getPipelineStatus(o), StatusCheckFallback))
             /\ loading' = SetState(loading, FALSE)
             /\ CommitTaskId(NoTask, NoHandle, stopped, inFlight0, elapsed)
             /\ UNCHANGED <<status, results, dataVars>>
        ELSE /\ status' = SetState(status, o.status)
             /\ IF o.status = "done"
                THEN /\ CommitResults(t, Query)
                     /\ loading' = SetState(loading, FALSE)
                     /\ CommitTaskId(NoTask, NoHandle, stopped, inFlight0, elapsed)
                     /\ UNCHANGED error
                ELSE IF o.status = "failed"
                THEN /\ error' = SetState(error, OrFallback(o.detail, PipelineFailedMessage))
                     /\ loading' = SetState(loading, FALSE)
                     /\ CommitTaskId(NoTask, NoHandle, stopped, inFlight0, elapsed)
                     /\ UNCHANGED <<results, dataVars>>
                ELSE /\ CommitTaskId(taskId, pollingIntervalRef, intervals, inFlight0, elapsed)
                     /\ UNCHANGED <<error, loading, results, dataVars>>
  /\ UNCHANGED <<mounted, file, uploadsStarted, submitInFlight, queryVars>>
  /\ UNCHANGED <<gridVars, normalizerVars, viewVars>>

\* how late a tick can fire: on time, or so late that the first tick of a
\* polling loop falls exactly on the ceiling
Lateness == {0, MAX_POLLING_TIME - POLLING_INTERVAL}

\* no tick runs later than this: the tick before it ran at most
\* MAX_POLLING_TIME after polling started, or the loop had timed out
MaxElapsed == 2 * MAX_POLLING_TIME

\* variants: the guard fires at the ceiling already; the guard never fires
TimedOut_AtCeiling(at) == at >= MAX_POLLING_TIME
TimedOut_Never(at) == FALSE
\* the guard of the setInterval callback
TimedOut(at) == at > MAX_POLLING_TIME

\* the interval after its callback ran: still live intervals fire again one
\* interval later
Rearm(iv, h, at) ==
  {IF i.h = h THEN [i EXCEPT !.due = at + POLLING_INTERVAL] ELSE i : i \in iv}

\* the setInterval callback of interval i, firing late by `late`
IntervalCallback(i, late) ==
  /\ i \in intervals
  /\ late = 0 => i.due <= MaxOnTimeTicks * POLLING_INTERVAL
  /\ i.due + late <= MaxElapsed
  /\ LET at == IF i.due + late > elapsed THEN i.due + late ELSE elapsed
     IN IF TimedOut(at)
        THEN /\ error' = SetState(error, TimeoutMessage)
             /\ loading' = SetState(loading, FALSE)
             /\ CommitTaskId(NoTask, pollingIntervalRef,
                             Rearm(clearInterval(intervals, pollingIntervalRef), i.h, at),
                             statusInFlight, at)
        ELSE /\ InFlightTotal < MaxInFlight
             /\ CommitTaskId(taskId, pollingIntervalRef, Rearm(intervals, i.h, at),
                             [statusInFlight EXCEPT ![i.task] = @ + 1], at)
             /\ UNCHANGED <<error, loading>>
  /\ UNCHANGED <<mounted, file, results, status, uploadsStarted, submitInFlight,
                 dataVars, queryVars, gridVars, normalizerVars, viewVars>>

\* a live interval fires
Tick(late) == \E i \in intervals : IntervalCallback(i, late)

\* AppProvider unmounts: the cleanup of the polling effect, then the cleanup
\* of the unmount effect
\* variant: unmounting leaves the interval alone
UnmountIntervals_NoClear(iv, ref) == iv
UnmountIntervals(iv, ref) ==
  IF ref # NoHandle THEN clearInterval(iv, ref) ELSE iv

Unmount ==
  /\ mounted
  /\ mounted' = FALSE
  /\ intervals' = UnmountIntervals(intervals, pollingIntervalRef)
  /\ pollingIntervalRef' = IF cleanupArmed THEN NoHandle ELSE pollingIntervalRef
  /\ cleanupArmed' = FALSE
  /\ UNCHANGED <<file, loading, error, results, taskId, status,
                 nextHandle, elapsed, uploadsStarted, submitInFlight, statusInFlight,
                 dataVars, queryVars, gridVars, normalizerVars, viewVars>>

\* ------------------------------------------------------------ query setters
FilterValues == {"all", "critical", "high", "low"}
SortValues == {"probability-desc", "id-asc"}
SearchValues == {EmptyText, <<"1">>}
PlanValues == {EmptyText, <<"d", "s", "l">>}
ContractValues == {EmptyText, Txt_M}
RegionValues == {EmptyText, Txt_E}
CardIds == {EmptyText, Txt_C2}

\* variant: a change of the query also dismisses the error
QueryChanged_ClearsError(q) ==
  /\ filteredCustomers' = computeView(normalizedCustomers, q)
  /\ error' = NULL
  /\ UNCHANGED <<mounted, file, loading, results, taskId, status,
                 pollingIntervalRef, cleanupArmed, intervals,
                 nextHandle, elapsed, uploadsStarted, submitInFlight, statusInFlight,
                 normalizedCustomers, gridVars, normalizerVars, viewVars>>
\* the render after a query setter: the filter/sort effect
QueryChanged(q) ==
  /\ filteredCustomers' = computeView(normalizedCustomers, q)
  /\ UNCHANGED <<pollerVars, normalizedCustomers, gridVars, normalizerVars, viewVars>>

SetActiveFilter(v) ==
  /\ mounted /\ v # activeFilter
  /\ activeFilter' = v
  /\ QueryChanged([Query EXCEPT !.activeFilter = v])
  /\ UNCHANGED <<expandedCardId, searchQuery, sortType, planTypeFilter,
                 contractTypeFilter, regionFilter>>

SetSearchQuery(v) ==
  /\ mounted /\ v # searchQuery
  /\ searchQuery' = v
  /\ QueryChanged([Query EXCEPT !.searchQuery = v])
  /\ UNCHANGED <<activeFilter, expandedCardId, sortType, planTypeFilter,
                 contractTypeFilter, regionFilter>>

SetSortType(v) ==
  /\ mounted /\ v # sortType
  /\ sortType' = v
  /\ QueryChanged([Query EXCEPT !.sortType = v])
  /\ UNCHANGED <<activeFilter, expandedCardId, searchQuery, planTypeFilter,
                 contractTypeFilter, regionFilter>>

SetPlanTypeFilter(v) ==
  /\ mounted /\ v # planTypeFilter
  /\ planTypeFilter' = v
  /\ QueryChanged([Query EXCEPT !.planTypeFilter = v])
  /\ UNCHANGED <<activeFilter, expandedCardId, searchQuery, sortType,
                 contractTypeFilter, regionFilter>>

SetContractTypeFilter(v) ==
  /\ mounted /\ v # contractTypeFilter
  /\ contractTypeFilter' = v
  /\ QueryChanged([Query EXCEPT !.contractTypeFilter = v])
  /\ UNCHANGED <<activeFilter, expandedCardId, searchQuery, sortType,
                 planTypeFilter, regionFilter>>

SetRegionFilter(v) ==
  /\ mounted /\ v # regionFilter
  /\ regionFilter' = v
  /\ QueryChanged([Query EXCEPT !.regionFilter = v])
  /\ UNCHANGED <<activeFilter, expandedCardId, searchQuery, sortType,
                 planTypeFilter, contractTypeFilter>>

SetExpandedCardId(v) ==
  /\ mounted /\ v # expandedCardId
  /\ expandedCardId' = v
  /\ UNCHANGED <<pollerVars, dataVars, activeFilter, searchQuery, sortType,
                 planTypeFilter, contractTypeFilter, regionFilter, gridVars, normalizerVars, viewVars>>

\* ------------------------------------------------------------ specification
\* the steps of the upload and polling machinery
Next ==
  \/ HandleFileSelect
  \/ \E k \in Tasks, o \in SubmitOutcomes : SubmitResponse(k, o)
  \/ \E t \in Tasks, o \in StatusOutcomes : StatusResponse(t, o)
  \/ \E late \in Lateness : Tick(late)
  \/ Unmount

Spec == Init /\ [][Next]_vars

\* timers fire and requests are answered (axios gives every request a timeout)
FairSpec ==
  /\ Spec
  /\ WF_vars(\E late \in Lateness : Tick(late))
  /\ WF_vars(\E t \in Tasks, o \in StatusOutcomes : StatusResponse(t, o))

\* the job of the last upload, whose status checks the backend answers with
\* done in SpecDone; the checks of earlier jobs are answered in any way
DoneJob == MaxUploads

DoneNext ==
  \/ HandleFileSelect
  \/ \E k \in Tasks, o \in SubmitOutcomes : SubmitResponse(k, o)
  \/ \E t \in Tasks \ {DoneJob}, o \in StatusOutcomes : StatusResponse(t, o)
  \/ StatusResponse(DoneJob, [kind |-> "ok", status |-> "done", detail |-> ""])
  \/ \E late \in Lateness : Tick(late)
  \/ Unmount

\* timers fire and the requests of every job are answered
SpecDone ==
  /\ Init /\ [][DoneNext]_vars
  /\ WF_vars(\E late \in Lateness : Tick(late))
  /\ WF_vars(\E t \in Tasks \ {DoneJob}, o \in StatusOutcomes : StatusResponse(t, o))
  /\ WF_vars(StatusResponse(DoneJob, [kind |-> "ok", status |-> "done", detail |-> ""]))

\* the steps of the presentation layer on the query, with uploads and their
\* responses but no timer firing
QueryNext ==
  \/ HandleFileSelect
  \/ \E k \in Tasks, o \in SubmitOutcomes : SubmitResponse(k, o)
  \/ \E t \in Tasks, o \in StatusOutcomes : StatusResponse(t, o)
  \/ \E v \in FilterValues : SetActiveFilter(v)
  \/ \E v \in SearchValues : SetSearchQuery(v)
  \/ \E v \in SortValues : SetSortType(v)
  \/ \E v \in PlanValues : SetPlanTypeFilter(v)
  \/ \E v \in ContractValues : SetContractTypeFilter(v)
  \/ \E v \in RegionValues : SetRegionFilter(v)
  \/ \E v \in CardIds : SetExpandedCardId(v)

SpecQuery == Init /\ [][QueryNext]_vars

\* ------------------------------------------------- VirtualizedCustomerGrid
BASE_ROW_HEIGHT == 420
EXPANDED_ROW_HEIGHT == 790

Min(a, b) == IF a < b THEN a ELSE b

\* calculateColumns: the column count for a window width
\* variant: two columns from the sm breakpoint on
calculateColumns_TwoFrom640(width) ==
  IF width < 640 THEN 1
  ELSE IF width < 1024 THEN 2
  ELSE IF width < 1280 THEN 3
  ELSE 4
calculateColumns(width) ==
  IF width < 640 THEN 1
  ELSE IF width < 768 THEN 1
  ELSE IF width < 1024 THEN 2
  ELSE IF width < 1280 THEN 3
  ELSE 4

\* Math.ceil(customers.length / columnCount)
rowCount(custs, cols) == (Len(custs) + cols - 1) \div cols

\* the for loop of Row from column colIndex on: the view indices (0-based) of
\* the cards pushed, in order; the loop breaks at the end of the view
RECURSIVE RowCards(_, _, _, _)
RowCards(custs, cols, rowIndex, colIndex) ==
  LET customerIndex == rowIndex * cols + colIndex
  IN IF colIndex >= cols \/ customerIndex >= Len(custs) THEN << >>
     ELSE <<customerIndex>> \o RowCards(custs, cols, rowIndex, colIndex + 1)

\* variant: the loop does not break at the end of the view
Row_NoBreak(custs, cols, rowIndex) == [k \in 1..cols |-> rowIndex * cols + k - 1]
\* the cards of row rowIndex
Row(custs, cols, rowIndex) == RowCards(custs, cols, rowIndex, 0)

\* the for loop of getItemSize, from index i (0-based) up to endIndex
RECURSIVE ScanRow(_, _, _, _)
ScanRow(custs, expanded, i, endIndex) ==
  IF i >= endIndex THEN BASE_ROW_HEIGHT
  ELSE IF custs[i + 1].id = expanded THEN EXPANDED_ROW_HEIGHT
  ELSE ScanRow(custs, expanded, i + 1, endIndex)

\* variant: the scan starts at the second card of the row
getItemSize_SkipsFirst(custs, cols, expanded, index) ==
  ScanRow(custs, expanded, index * cols + 1, Min(index * cols + cols, Len(custs)))
getItemSize(custs, cols, expanded, index) ==
  LET startIndex == index * cols
      endIndex == Min(startIndex + cols, Len(custs))
  IN ScanRow(custs, expanded, startIndex, endIndex)

\* customers.findIndex(customer => customer.id === expandedCardId)
findIndex(custs, expanded) ==
  IF \E i \in 1..Len(custs) : custs[i].id = expanded
  THEN (CHOOSE i \in 1..Len(custs) :
          custs[i].id = expanded /\ \A j \in 1..(i - 1) : custs[j].id # expanded) - 1
  ELSE -1

\* the row the reset effect gives to resetAfterIndex
ResetRow(custs, cols, expanded) ==
  IF expanded # EmptyText
  THEN IF findIndex(custs, expanded) # -1
       THEN findIndex(custs, expanded) \div cols
       ELSE 0
  ELSE 0

\* VariableSizeList.resetAfterIndex(index): the cached measurements of the
\* rows from index on are dropped, those of the rows before it are kept
resetAfterIndex(heights, index) == SubSeq(heights, 1, Min(Len(heights), index))

\* a render of the List: each row up to the last one the viewport reaches is
\* measured with itemSize unless its measurement is cached
Measure(heights, custs, cols, expanded, stop) ==
  LET last == Min(stop, rowCount(custs, cols) - 1)
      n == IF last + 1 > Len(heights) THEN last + 1 ELSE Len(heights)
  IN [r \in 1..n |->
        IF r <= Len(heights) THEN heights[r] ELSE getItemSize(custs, cols, expanded, r - 1)]

\* The render of the grid after customers, columnCount or expandedCardId
\* changed to the given values, the reset effect, and the render it forces.
\* An empty view renders no List; a List that is rendered anew has no cache.
GridCommit(custs, cols, expanded) ==
  IF Len(custs) = 0
  THEN /\ listMounted' = FALSE
       /\ cachedHeights' = << >>
       /\ lastReset' = NoReset
  ELSE LET before == IF listMounted THEN cachedHeights ELSE << >>
           rendered == Measure(before, custs, cols, expanded, visibleStop)
           row == ResetRow(custs, cols, expanded)
       IN /\ listMounted' = TRUE
          /\ lastReset' = row
          /\ cachedHeights' =
               Measure(resetAfterIndex(rendered, row), custs, cols, expanded, visibleStop)

\* variant: a card that is toggled is always the expanded one afterwards
handleCardToggle_NeverCollapses(cardId) == cardId
\* handleCardToggle: the value given to setExpandedCardId (null is the empty id)
handleCardToggle(cardId) == IF expandedCardId = cardId THEN EmptyText ELSE cardId

\* a click on the card of the entity at view index i (0-based); only a card
\* of a row that was rendered can be clicked
ToggleCard(i) ==
  /\ listMounted
  /\ i < Len(customers)
  /\ i \div columnCount <= visibleStop
  /\ expandedCardId' = handleCardToggle(customers[i + 1].id)
  /\ GridCommit(customers, columnCount, expandedCardId')
  /\ UNCHANGED <<customers, columnCount, innerWidth, resizeTimeout, visibleStop>>
  /\ UNCHANGED <<pollerVars, dataVars, activeFilter, searchQuery, sortType,
                 planTypeFilter, contractTypeFilter, regionFilter, normalizerVars, viewVars>>

\* the views the grid is given: the first n entities of a result
GridView(n) == [i \in 1..n |-> [id |-> PlaceholderId(i - 1)]]
GridViews == {GridView(n) : n \in 0..MaxGridEntities}

\* the parent passes a new customers array
SetCustomers(view) ==
  /\ customers' = view
  /\ GridCommit(view, columnCount, expandedCardId)
  /\ UNCHANGED <<columnCount, innerWidth, resizeTimeout, visibleStop>>
  /\ UNCHANGED <<providerVars, normalizerVars, viewVars>>

\* window widths, one for each column count
Widths == {700, 800, 1100, 1300}

\* handleResize: the window was resized, calculateColumns is scheduled
HandleResize(width) ==
  /\ width # innerWidth
  /\ innerWidth' = width
  /\ resizeTimeout' = TRUE
  /\ lastReset' = NoReset
  /\ UNCHANGED <<customers, columnCount, listMounted, cachedHeights, visibleStop>>
  /\ UNCHANGED <<providerVars, normalizerVars, viewVars>>

\* the debounce timer fires: calculateColumns and the render that follows
CalculateColumnsTimer ==
  /\ resizeTimeout
  /\ resizeTimeout' = FALSE
  /\ columnCount' = calculateColumns(innerWidth)
  /\ IF calculateColumns(innerWidth) # columnCount
     THEN GridCommit(customers, calculateColumns(innerWidth), expandedCardId)
     ELSE lastReset' = NoReset /\ UNCHANGED <<listMounted, cachedHeights>>
  /\ UNCHANGED <<customers, innerWidth, visibleStop>>
  /\ UNCHANGED <<providerVars, normalizerVars, viewVars>>

\* the list is scrolled: the viewport reaches down to row `stop`
Scroll(stop) ==
  /\ listMounted
  /\ stop # visibleStop
  /\ visibleStop' = stop
  /\ cachedHeights' = Measure(cachedHeights, customers, columnCount, expandedCardId, stop)
  /\ lastReset' = NoReset
  /\ UNCHANGED <<customers, columnCount, innerWidth, resizeTimeout, listMounted>>
  /\ UNCHANGED <<providerVars, normalizerVars, viewVars>>

\* the grid after it was mounted with a view, in a window of some width, no
\* card expanded
GridInit ==
  /\ ProviderInit
  /\ NormalizerIdle
  /\ ViewIdle
  /\ customers \in GridViews
  /\ innerWidth \in Widths
  /\ columnCount = calculateColumns(innerWidth)
  /\ resizeTimeout = FALSE
  /\ listMounted = (customers # << >>)
  /\ visibleStop = 0
  /\ cachedHeights = Measure(<< >>, customers, columnCount, EmptyText, 0)
  /\ lastReset = IF customers # << >> THEN 0 ELSE NoReset

GridNext ==
  \/ \E i \in 0..(MaxGridEntities - 1) : ToggleCard(i)
  \/ \E view \in GridViews : SetCustomers(view)
  \/ \E width \in Widths : HandleResize(width)
  \/ CalculateColumnsTimer
  \/ \E stop \in 0..MaxVisibleStop : Scroll(stop)

SpecGrid == GridInit /\ [][GridNext]_vars

\* the grid under resizes alone, with window widths on both sides of every
\* breakpoint
BoundaryWidths == {320, 639, 640, 767, 768, 1023, 1024, 1279, 1280, 1920}

ColumnsInit ==
  /\ ProviderInit
  /\ NormalizerIdle
  /\ ViewIdle
  /\ customers \in {GridView(0), GridView(5), GridView(MaxGridEntities)}
  /\ innerWidth \in {320, 1920}    \* mounted in a narrow or in a wide window
  /\ columnCount = calculateColumns(innerWidth)
  /\ resizeTimeout = FALSE
  /\ listMounted = (customers # << >>)
  /\ visibleStop = 0
  /\ cachedHeights = Measure(<< >>, customers, columnCount, EmptyText, 0)
  /\ lastReset = IF customers # << >> THEN 0 ELSE NoReset

ColumnsNext ==
  \/ \E width \in BoundaryWidths : HandleResize(width)
  \/ CalculateColumnsTimer

SpecColumns == ColumnsInit /\ [][ColumnsNext]_vars

\* ------------------------------------------- normalizeCustomerData on its own
CallNormalize ==
  /\ ~normalizeReturned /\ ~normalizeThrew
  /\ IF normalizeThrows(rawResult)
     THEN /\ normalizeThrew' = TRUE
          /\ UNCHANGED <<normalized, normalizeReturned>>
     ELSE /\ normalized' = normalizeCustomerData(rawResult)
          /\ normalizeReturned' = TRUE
          /\ UNCHANGED normalizeThrew
  /\ UNCHANGED <<rawResult, effectOutcome, providerVars, gridVars, viewVars>>

\* the render in which results is rawResult: the normalize effect, and when it
\* has set the data arrays the filter/sort effect of the following render
RunNormalizeEffect ==
  /\ effectOutcome = "none"
  /\ IF NormalizeEffectThrows(rawResult)
     THEN /\ effectOutcome' = "threw"
          /\ UNCHANGED dataVars
     ELSE /\ effectOutcome' = "committed"
          /\ normalizedCustomers' = NormalizeEffectOn(rawResult)
          /\ filteredCustomers' = computeView(NormalizeEffectOn(rawResult), Query)
  /\ UNCHANGED <<rawResult, normalized, normalizeReturned, normalizeThrew,
                 pollerVars, queryVars, gridVars, viewVars>>

NormalizeInit ==
  /\ ProviderInit
  /\ GridIdle
  /\ ViewIdle
  /\ \/ rawResult \in Payloads
     \/ rawResult \in UnequalPayloads
     \/ rawResult \in MalformedPayloads
     \/ rawResult \in PlaceholderKeyedPayloads
     \/ rawResult \in BoundaryPayloads
  /\ normalized = << >>
  /\ normalizeReturned = FALSE
  /\ normalizeThrew = FALSE
  /\ effectOutcome = "none"

NormalizeNext == CallNormalize \/ RunNormalizeEffect

SpecNormalize == NormalizeInit /\ [][NormalizeNext]_vars

\* ------------------------------------------- the filter/sort effect on its own
Txt_c2 == <<"c", "-", "2">>
Txt_m == <<"m">>
Txt_dsl == <<"d", "s", "l">>
Txt_e == <<"e">>
EntityId(n) == <<"e", "n", "t", "i", "t", "y", "-">> \o DecimalText(n)

\* customer_insights of the results the entities are normalized from: one
\* customer with capitalised feature names, one with snake-case names and
\* lower-case values; every other customer has no insights
ViewInsights ==
  (Txt_C2 :> [feature_values |->
                [Contract |-> Txt_M, InternetService |-> Txt_DSL, Region |-> Txt_E],
              shap_feature_values |-> << >>])
    @@ (Txt_c2 :> [feature_values |->
                     [contract |-> Txt_m, internet_service |-> Txt_dsl, region |-> Txt_e],
                   shap_feature_values |-> << >>])

ViewEntry(id, score) ==
  [kind |-> "object", id |-> id, churn_probability |-> Score(TRUE, TRUE, score)]

ViewEntries ==
  {ViewEntry(Txt_C2, 95), ViewEntry(Txt_c2, 7200), ViewEntry(Txt_c11, 3900),
   ViewEntry(EmptyText, 9000), ViewEntry(Txt_E, 7000), ViewEntry(Txt_c2, 95)}

ViewResult(churn) ==
  [result_kind |-> "object",
   churn_kind |-> "array",
   customer_churn |-> churn,
   customer_reasons |-> <<"M", "r2">>,
   retention_strategies |-> <<"s1">>,
   customer_insights |-> ViewInsights]

\* the entities with the scores 95, 72, 39, 91
FourScores ==
  ViewResult(<<ViewEntry(EntityId(1), 9500), ViewEntry(EntityId(2), 7200),
               ViewEntry(EntityId(3), 3900), ViewEntry(EntityId(4), 9100)>>)

\* the entities entity-11, entity-2, entity-1
ThreeIds ==
  ViewResult(<<ViewEntry(EntityId(11), 3900), ViewEntry(EntityId(2), 7200),
               ViewEntry(EntityId(1), 9500)>>)

\* a low score followed by two entities with the same high score
TiedScores ==
  ViewResult(<<ViewEntry(Txt_c11, 3900), ViewEntry(Txt_c2, 95), ViewEntry(Txt_C2, 95)>>)

\* what normalizedCustomers can hold: normalized results
ViewInputs ==
  {normalizeCustomerData(ViewResult(churn)) : churn \in SeqUpTo(ViewEntries, MaxViewEntities)}
    \cup {normalizeCustomerData(FourScores), normalizeCustomerData(ThreeIds),
          normalizeCustomerData(TiedScores)}

\* the sort keys the effect knows, and one it does not know
ViewSortValues == {"probability-desc", "highest-risk", "lowest-risk", "id-asc", ""}

\* the queries of a render
ViewQueries ==
  [activeFilter : {"all", "critical", "high", "low"},
   searchQuery : {EmptyText, Txt_C2, <<"-", "1">>, Txt_M},
   sortType : ViewSortValues,
   planTypeFilter : {EmptyText, Txt_dsl},
   contractTypeFilter : {EmptyText, Txt_M},
   regionFilter : {EmptyText, Txt_e}]

\* no filter call replaced the spread copy: filtered is still that copy
NoFilterApplied(q) ==
  /\ q.activeFilter \notin {"critical", "high", "low"}
  /\ q.planTypeFilter = EmptyText
  /\ q.contractTypeFilter = EmptyText
  /\ q.regionFilter = EmptyText
  /\ q.searchQuery = EmptyText

\* normalizedCustomers after the effect body. The body starts from the copy
\* [...normalizedCustomers], and filter returns new arrays, so the in-place
\* sort never touches normalizedCustomers itself.
\* variant: filtered starts as normalizedCustomers itself
InputAfterEffect_NoCopy(input, q) ==
  IF NoFilterApplied(q) THEN SortBy(q.sortType, input) ELSE input
InputAfterEffect(input, q) == input

\* the effect body runs for the render in which normalizedCustomers and the
\* query have these values
RunFilterSortEffect ==
  /\ viewPhase = "idle"
  /\ viewFiltered' = computeView(viewCustomers, viewQuery)
  /\ viewCustomers' = InputAfterEffect(viewCustomers, viewQuery)
  /\ viewPhase' = "ran"
  /\ UNCHANGED <<viewQuery, providerVars, gridVars, normalizerVars>>

\* the effect body runs again with the same values (a dependency got a new
\* identity with equal content)
RerunFilterSortEffect ==
  /\ viewPhase = "ran"
  /\ viewFiltered' = computeView(viewCustomers, viewQuery)
  /\ viewCustomers' = InputAfterEffect(viewCustomers, viewQuery)
  /\ viewPhase' = "reran"
  /\ UNCHANGED <<viewQuery, providerVars, gridVars, normalizerVars>>

ViewInit ==
  /\ ProviderInit
  /\ GridIdle
  /\ NormalizerIdle
  /\ viewCustomers \in ViewInputs
  /\ viewQuery \in ViewQueries
  /\ viewFiltered = << >>
  /\ viewPhase = "idle"

ViewNext == RunFilterSortEffect \/ RerunFilterSortEffect

SpecView == ViewInit /\ [][ViewNext]_vars

\* ------------------------------------------------------------------- claims
\* a status check for task t is issued by this step
Issued(t) == statusInFlight'[t] > statusInFlight[t]

\* the submission of upload t was answered; unless t is now the task id, its
\* job was cancelled, finished, timed out or never started
Answered(t) == t <= uploadsStarted /\ t \notin submitInFlight

\* no status check is issued by this step for a job that is not, or no
\* longer, the polled one
NoCheckForStoppedJob == \A t \in Tasks : (Answered(t) /\ taskId # t) => ~Issued(t)

\* this step is a tick of the polling interval (only ticks advance the clock)
IsTick == elapsed' > elapsed

\* C1: at most one polling interval is live in every reachable state, so each
\* timer period issues one status check, also after a second job was started
\* while the first was polling.
C1_AtMostOneInterval == Cardinality(intervals) <= 1

\* the second job is polled and its interval has ticked and issued a check,
\* while a check of the first job is still unanswered
C1_Witness ==
  /\ \E i \in intervals : i.task = 2
  /\ elapsed > 0
  /\ statusInFlight[2] > 0
  /\ statusInFlight[1] > 0

\* C2: a status response for a job that is no longer the polled job changes
\* none of results, error, status, loading, taskId and cancels no interval.
C2_StaleResponseIgnored ==
  [][\A t \in Tasks :
       (statusInFlight'[t] < statusInFlight[t] /\ t # taskId)
         => UNCHANGED <<results, error, status, loading, taskId, intervals>>]_vars

\* C3: starting an upload leaves no interval live when its submission request
\* goes out; a job whose polling was stopped gets no further status check; all
\* live intervals poll the same task.
C3_CancelBeforeSubmit ==
  [][/\ submitInFlight' \ submitInFlight # {} => intervals' = {}
     /\ NoCheckForStoppedJob
     /\ \A i, j \in intervals' : i.task = j.task]_vars

\* the second upload's request is out, the first job was being polled (one of
\* its checks is unanswered) and no interval is live
C3_Witness ==
  /\ submitInFlight = {2}
  /\ statusInFlight[1] > 0
  /\ intervals = {}
  /\ mounted

\* what a timeout does
TimeoutEffects ==
  /\ intervals' = {}
  /\ error' = TimeoutMessage
  /\ loading' = FALSE
  /\ taskId' = NoTask
  /\ statusInFlight' = statusInFlight

\* C4 as stated: the poller times out on the first tick at which the time
\* since polling started is at or after the ceiling.
C4_TimeoutAtOrAfterCeiling ==
  [][(IsTick /\ elapsed' >= MAX_POLLING_TIME) => TimeoutEffects]_vars

\* C4 amended: the poller times out on the first tick at which the time since
\* polling started exceeds the ceiling: that tick cancels the interval, sets
\* the timeout error, clears loading and taskId and issues no check; a tick at
\* or before the ceiling issues one check for the polled job and sets no
\* error; a timed-out job gets no further check.
C4_TimeoutAfterCeiling ==
  [][/\ IsTick =>
          IF elapsed' > MAX_POLLING_TIME
          THEN TimeoutEffects
          ELSE /\ intervals' # {}
               /\ error' = error
               /\ taskId' = taskId
               /\ statusInFlight' = [statusInFlight EXCEPT ![taskId] = @ + 1]
     /\ NoCheckForStoppedJob]_vars

\* a loop has timed out
C4_Witness ==
  /\ error = TimeoutMessage
  /\ elapsed > MAX_POLLING_TIME
  /\ taskId = NoTask
  /\ intervals = {}
  /\ ~loading

DoneOutcome == [kind |-> "ok", status |-> "done", detail |-> ""]

\* C5: a done response for the polled job cancels the interval, sets results
\* to the job's result, clears loading and taskId; the job gets no further
\* status check.
C5_DoneStopsPolling ==
  [][/\ \A t \in Tasks :
          (mounted /\ t = taskId /\ StatusResponse(t, DoneOutcome))
            => /\ intervals' = {}
               /\ results' = t
               /\ loading' = FALSE
               /\ taskId' = NoTask
               /\ status' = "done"
     /\ NoCheckForStoppedJob]_vars

\* the second job finished with its result while it was being polled
C5_Witness ==
  /\ results = 2
  /\ status = "done"
  /\ taskId = NoTask
  /\ intervals = {}
  /\ ~loading
  /\ normalizedCustomers = normalizeCustomerData(RawResult(2))

GenericErrorTexts ==
  {PipelineFailedMessage, StatusCheckFallback, TaskNotFoundMessage, NoResponseMessage,
   UnknownErrorMessage}

\* C6: a failed response or a throwing status check ends polling on that
\* response: interval cancelled, error set to the server's message or else a
\* generic text, loading false, taskId cleared; a pending or processing
\* response leaves the interval and error as they are.
C6_FailFast ==
  [][\A t \in Tasks, o \in StatusOutcomes :
       (mounted /\ StatusResponse(t, o))
         => IF o.kind = "ok" /\ o.status \in {"pending", "processing"}
            THEN intervals' = intervals /\ error' = error
            ELSE IF o.kind = "ok" /\ o.status = "done"
            THEN error' = error
            ELSE /\ intervals' = {}
                 /\ loading' = FALSE
                 /\ taskId' = NoTask
                 /\ (o.detail # "" /\ o.kind # "http404") => error' = o.detail
                 /\ (o.detail = "" \/ o.kind = "http404") => error' \in GenericErrorTexts]_vars

\* a job failed without a server message
C6_Witness ==
  /\ error = PipelineFailedMessage
  /\ status = "failed"
  /\ taskId = NoTask
  /\ intervals = {}
  /\ ~loading

\* C7: once AppProvider is unmounted no interval is live and no step issues
\* a status check.
C7_NoIntervalAfterUnmount ==
  [][~mounted' => (intervals' = {} /\ \A t \in Tasks : ~Issued(t))]_vars

\* unmounted while a job was being polled and one of its checks was out
C7_Witness ==
  /\ ~mounted
  /\ taskId # NoTask
  /\ statusInFlight[taskId] > 0
  /\ cleanupArmed = FALSE

\* C8: every live polling interval is eventually released, also when the
\* backend answers pending or processing for ever.
C8_PollingReleased == (intervals # {}) ~> (intervals = {})

\* polling is under way and the backend has answered pending
C8_Witness ==
  /\ intervals # {}
  /\ status = "pending"
  /\ elapsed = MAX_POLLING_TIME

\* C9 as stated: an upload resets the error and every query dimension,
\* the sort key included, and empties results, entities and view.
C9_UploadResetsAll ==
  [][uploadsStarted' > uploadsStarted
       => /\ error' = NULL
          /\ activeFilter' = "all"
          /\ searchQuery' = EmptyText
          /\ sortType' = "probability-desc"
          /\ planTypeFilter' = EmptyText
          /\ contractTypeFilter' = EmptyText
          /\ regionFilter' = EmptyText
          /\ expandedCardId' = EmptyText
          /\ results' = NoResult
          /\ normalizedCustomers' = << >>
          /\ filteredCustomers' = << >>]_vars

\* C9 amended: an upload resets the error, the tier filter, the search text,
\* all category filters and the expanded id, and empties results, entities
\* and view; the sort key is left as it was.
C9_UploadResetsAllButSort ==
  [][uploadsStarted' > uploadsStarted
       => /\ error' = NULL
          /\ activeFilter' = "all"
          /\ searchQuery' = EmptyText
          /\ sortType' = sortType
          /\ planTypeFilter' = EmptyText
          /\ contractTypeFilter' = EmptyText
          /\ regionFilter' = EmptyText
          /\ expandedCardId' = EmptyText
          /\ results' = NoResult
          /\ normalizedCustomers' = << >>
          /\ filteredCustomers' = << >>]_vars

\* a second upload was started after the sort key was changed
C9_Witness ==
  /\ uploadsStarted = 2
  /\ 2 \in submitInFlight
  /\ sortType = "id-asc"
  /\ activeFilter = "all"
  /\ normalizedCustomers = << >>
  /\ loading

SubmitFailureTexts == {UnknownErrorMessage, NoResponseMessage, UploadFallback}

\* what a failed submission of upload k with outcome o does, taskId aside
SubmitFailureEffects(k, o) ==
  /\ o.detail # "" => error' = o.detail
  /\ o.detail = "" => error' \in SubmitFailureTexts
  /\ loading' = FALSE
  /\ intervals' = intervals
  /\ statusInFlight' = statusInFlight
  /\ statusInFlight[k] = 0

TerminalOutcomes ==
  {o \in StatusOutcomes : ~(o.kind = "ok" /\ o.status \in {"pending", "processing"})}

\* C11: when polling starts for a task id one status check is issued at once,
\* before the first interval elapses; afterwards every tick of the interval
\* that is not the timeout issues exactly one status check, for the polled
\* job, and the interval fires again one POLLING_INTERVAL later; the interval
\* stays live until a terminal condition: a terminal status response, the
\* timeout, a new upload or the unmount.
C11_PollNowThenEveryTick ==
  [][/\ \A k \in Tasks, o \in SubmitOutcomes :
          (mounted /\ runPipeline(o) = "" /\ SubmitResponse(k, o))
            => /\ taskId' = k
               /\ statusInFlight' = [statusInFlight EXCEPT ![k] = @ + 1]
               /\ elapsed' = 0
               /\ intervals' = {[h |-> nextHandle, task |-> k, due |-> POLLING_INTERVAL]}
     /\ (IsTick /\ taskId' # NoTask)
          => /\ statusInFlight' = [statusInFlight EXCEPT ![taskId] = @ + 1]
             /\ \A t \in Tasks : statusInFlight'[t] <= statusInFlight[t] + 1
             /\ \A i \in intervals' : i.task = taskId /\ i.due = elapsed' + POLLING_INTERVAL
     /\ \A t \in Tasks : Issued(t) => (IsTick \/ taskId' # taskId)
     /\ (intervals # {} /\ intervals' = {})
          => \/ IsTick /\ elapsed' > MAX_POLLING_TIME
             \/ uploadsStarted' > uploadsStarted
             \/ ~mounted'
             \/ \E t \in Tasks, o \in TerminalOutcomes : StatusResponse(t, o)]_vars

\* the first job is polled: its immediate check and the check of the first
\* tick, five seconds later, are both unanswered
C11_Witness ==
  /\ taskId = 1
  /\ elapsed = POLLING_INTERVAL
  /\ statusInFlight[1] = 2
  /\ \E i \in intervals : i.task = 1 /\ i.due = 2 * POLLING_INTERVAL

\* this step is a call of a query setter by the presentation layer (an upload
\* changes the query too)
IsQuerySetter == queryVars' # queryVars /\ uploadsStarted' = uploadsStarted

\* C16: a query setter (tier filter, search text, sort key, category filter,
\* expanded id) leaves taskId, the live interval, loading, error, status,
\* results and the normalized entities as they are and issues no status check.
C16_QueryLeavesPollerAlone ==
  [][IsQuerySetter
       => /\ UNCHANGED <<taskId, intervals, pollingIntervalRef, loading, error, status,
                         results, normalizedCustomers>>
          /\ \A t \in Tasks : ~Issued(t)]_vars

\* the tier filter, the search text, the sort key, a category filter and the
\* expanded id were set while the second job was being polled
C16_Witness ==
  /\ taskId = 2
  /\ intervals # {}
  /\ loading
  /\ activeFilter = "critical"
  /\ searchQuery # EmptyText
  /\ sortType = "id-asc"
  /\ regionFilter # EmptyText
  /\ expandedCardId # EmptyText

\* C17: once the effects of a step have run, the view is computeView of the
\* normalized entities and the current query.
C17_ViewIsComputed == filteredCustomers = computeView(normalizedCustomers, Query)

\* the view of a result under a tier filter and a sort key other than the
\* initial ones: a proper part of the entities
C17_Witness ==
  /\ results = 1
  /\ sortType = "id-asc"
  /\ activeFilter = "high"
  /\ Len(normalizedCustomers) = 3
  /\ Len(filteredCustomers) = 1

\* the number a raw score stands for: its value, the value it parses to, or 0
\* when it does not parse
RawValue(raw) == IF raw.isNumber \/ raw.parses THEN raw.v ELSE 0

\* C18: the normalized score of every entry is 100*s when the raw score s is
\* at most 1 and s itself when s is above 1; a score that does not parse
\* counts as 0.
C18_ScoreScaling ==
  normalizeReturned =>
    /\ Len(normalized) = Len(rawResult.customer_churn)
    /\ \A i \in 1..Len(normalized) :
         LET s == RawValue(rawResult.customer_churn[i].churn_probability)
         IN normalized[i].churn_probability = IF s <= 100 THEN 100 * s ELSE s

\* a payload with the scores 1 and 1.01 was normalized to 100 and 1.01
C18_Witness ==
  /\ normalizeReturned
  /\ Len(normalized) = 2
  /\ rawResult.customer_churn[1].churn_probability = Score(TRUE, TRUE, 100)
  /\ normalized[1].churn_probability = 10000
  /\ rawResult.customer_churn[2].churn_probability = Score(TRUE, TRUE, 101)
  /\ normalized[2].churn_probability = 101

\* the first n elements of an array (Array.prototype.slice(0, n))
Take(arr, n) == SubSeq(arr, 1, IF n < Len(arr) THEN n ELSE Len(arr))

\* C21: normalization is positional and total. For arrays of any lengths the
\* output has as many entities as customer_churn, entity i carries reasons[i]
\* and strategies[i], a missing reason or strategy is the empty string, and
\* what reasons and strategies hold beyond the length of customer_churn has
\* no influence on the output.
C21_PositionalAndTotal ==
  normalizeReturned =>
    LET n == Len(rawResult.customer_churn)
        reasons == rawResult.customer_reasons
        strategies == rawResult.retention_strategies
    IN /\ Len(normalized) = n
       /\ \A i \in 1..n :
            /\ normalized[i].reason = IF i <= Len(reasons) THEN reasons[i] ELSE ""
            /\ normalized[i].strategy = IF i <= Len(strategies) THEN strategies[i] ELSE ""
       /\ normalized =
            normalizeCustomerData(
              [rawResult EXCEPT !.customer_reasons = Take(reasons, n),
                                !.retention_strategies = Take(strategies, n)])

\* two entries with three reasons and one strategy: the second entity has its
\* reason and no strategy, the third reason is dropped
C21_Witness ==
  /\ normalizeReturned
  /\ Len(rawResult.customer_churn) = 2
  /\ rawResult.customer_reasons = <<"r1", "r2", "r1">>
  /\ rawResult.retention_strategies = <<"s1">>
  /\ Len(normalized) = 2
  /\ normalized[1].reason = "r1" /\ normalized[1].strategy = "s1"
  /\ normalized[2].reason = "r2" /\ normalized[2].strategy = ""

\* the payloads of the wrong type C22 speaks of
Malformed(result) ==
  \/ result.result_kind # "object"
  \/ result.churn_kind # "array"
  \/ \E i \in 1..Len(result.customer_churn) : result.customer_churn[i].kind # "object"

\* C22: a payload of the wrong type never raises: normalizeCustomerData
\* returns the empty array for it, the normalize effect leaves the entities
\* and the view empty, and no error is shown.
C22_MalformedYieldsEmpty ==
  Malformed(rawResult) =>
    /\ ~normalizeThrew
    /\ normalizeReturned => normalized = << >>
    /\ effectOutcome # "threw"
    /\ effectOutcome = "committed" =>
         normalizedCustomers = << >> /\ filteredCustomers = << >>
    /\ error = NULL

\* C19: the risk_score of every normalized entity lies in [0,100].
C19_ScoreInRange ==
  normalizeReturned =>
    \A i \in 1..Len(normalized) :
      normalized[i].churn_probability >= 0 /\ normalized[i].churn_probability <= 10000

\* C20: the tier of every normalized entity is low for a score below 40,
\* medium for a score from 40 to 70, both included, and high above 70.
C20_TierBoundaries ==
  normalizeReturned =>
    \A i \in 1..Len(normalized) :
      LET score == normalized[i].churn_probability
      IN /\ score < 4000 => normalized[i].risk_level = "low"
         /\ (score >= 4000 /\ score <= 7000) => normalized[i].risk_level = "medium"
         /\ score > 7000 => normalized[i].risk_level = "high"

\* entities with the scores 40 and 70 came out medium
C20_Witness ==
  /\ normalizeReturned
  /\ Len(normalized) = 2
  /\ normalized[1].churn_probability = 4000 /\ normalized[1].risk_level = "medium"
  /\ normalized[2].churn_probability = 7000 /\ normalized[2].risk_level = "medium"

\* every row of the view whose height is cached is cached with the height the
\* height function gives it now
CacheIsCurrent ==
  \A r \in 0..(Len(cachedHeights) - 1) :
    r < rowCount(customers, columnCount)
      => cachedHeights[r + 1] = getItemSize(customers, columnCount, expandedCardId, r)

\* C12: a change of the expanded id (expand, collapse, switch) leaves every
\* cached row height equal to the height function of that row: no row that is
\* no longer tall keeps a cached expanded height.
C12_ToggleKeepsCacheCurrent ==
  [][(expandedCardId' # expandedCardId /\ CacheIsCurrent) => CacheIsCurrent']_vars

\* C13: a resize that changes the column count resets the height cache from
\* row 0, whether or not an entity is expanded.
C13_ResizeResetsFromRowZero ==
  [][(columnCount' # columnCount /\ listMounted') => lastReset' = 0]_vars

\* the entities of row r: those at the view indices r*c .. min(r*c+c, n)-1
RowEntities(r) ==
  {i \in 0..(Len(customers) - 1) :
     i >= r * columnCount /\ i < Min(r * columnCount + columnCount, Len(customers))}

\* C14: the height function gives a row the expanded height exactly when one
\* of its entities has the expanded id and the base height otherwise; in a
\* view of 9 entities in 4 columns with the entity at index 6 expanded, row 1
\* is tall and rows 0 and 2 are base; with nothing expanded every row is base.
C14_RowHeight ==
  /\ \A r \in 0..(rowCount(customers, columnCount) - 1) :
       getItemSize(customers, columnCount, expandedCardId, r) =
         IF \E i \in RowEntities(r) : customers[i + 1].id = expandedCardId
         THEN EXPANDED_ROW_HEIGHT ELSE BASE_ROW_HEIGHT
  /\ (Len(customers) = 9 /\ columnCount = 4 /\ expandedCardId = customers[7].id)
       => /\ getItemSize(customers, columnCount, expandedCardId, 0) = 420
          /\ getItemSize(customers, columnCount, expandedCardId, 1) = 790
          /\ getItemSize(customers, columnCount, expandedCardId, 2) = 420
  /\ expandedCardId = EmptyText
       => \A r \in 0..(rowCount(customers, columnCount) - 1) :
            getItemSize(customers, columnCount, expandedCardId, r) = 420

\* 9 entities in 4 columns, the entity at index 6 is expanded and all three
\* rows are measured
C14_Witness ==
  /\ Len(customers) = 9
  /\ columnCount = 4
  /\ expandedCardId = customers[7].id
  /\ cachedHeights = <<420, 790, 420>>

\* the entities of the view that are shown expanded, the rows that are tall
ExpandedEntities == {i \in 1..Len(customers) : customers[i].id = expandedCardId}
TallRows ==
  {r \in 0..(rowCount(customers, columnCount) - 1) :
     getItemSize(customers, columnCount, expandedCardId, r) = EXPANDED_ROW_HEIGHT}

\* C15: at most one entity of the view is expanded and at most one row is
\* tall; toggling a card while another is expanded makes it the only expanded
\* one, toggling the expanded card leaves none expanded.
C15_SingleExpansion ==
  [][/\ Cardinality(ExpandedEntities') <= 1
     /\ Cardinality(TallRows') <= 1
     /\ \A i \in 0..(MaxGridEntities - 1) :
          ToggleCard(i) =>
            IF expandedCardId = customers[i + 1].id
            THEN expandedCardId' = EmptyText /\ ExpandedEntities' = {} /\ TallRows' = {}
            ELSE /\ expandedCardId' = customers[i + 1].id
                 /\ ExpandedEntities' = {i + 1}
                 /\ TallRows' = {i \div columnCount}]_vars

\* a card of the second row was toggled and is the expanded one
C15_Witness ==
  /\ columnCount = 2
  /\ Len(customers) = 4
  /\ expandedCardId = customers[3].id
  /\ lastReset = 1
  /\ TallRows = {1}


\* the scores of a sequence of entities
ScoresOf(entities) == [i \in 1..Len(entities) |-> entities[i].churn_probability]

\* the ids of a sequence of entities
IdsOf(entities) == [i \in 1..Len(entities) |-> entities[i].id]

\* the query with every filter and the search text inactive
Unfiltered(sortKey) == [InitialQuery EXCEPT !.sortType = sortKey]

\* C23: the tier filter keeps exactly, of the entities that pass the other
\* filters and the search: for critical those with tier high and a score of
\* at least 90, for high those with tier high and a score from 70 up to but
\* not including 90, for low those with tier low, and for all every entity.
\* Critical on the scores 95, 72, 39, 91 keeps exactly 95 and 91.
C23_TierFilter ==
  viewPhase # "idle" =>
    LET InTier(c) ==
          CASE viewQuery.activeFilter = "critical" ->
                 c.risk_level = "high" /\ c.churn_probability >= 9000
            [] viewQuery.activeFilter = "high" ->
                 /\ c.risk_level = "high"
                 /\ 7000 <= c.churn_probability /\ c.churn_probability < 9000
            [] viewQuery.activeFilter = "low" -> c.risk_level = "low"
            [] viewQuery.activeFilter = "all" -> TRUE
        withoutTier == computeView(viewCustomers, [viewQuery EXCEPT !.activeFilter = "all"])
    IN /\ viewFiltered = SelectSeq(withoutTier, InTier)
       /\ (/\ ScoresOf(viewCustomers) = <<9500, 7200, 3900, 9100>>
           /\ viewQuery = [Unfiltered("") EXCEPT !.activeFilter = "critical"])
            => ScoresOf(viewFiltered) = <<9500, 9100>>

\* critical on the scores 95, 72, 39, 91 kept 95 and 91
C23_Witness ==
  /\ viewPhase = "ran"
  /\ ScoresOf(viewCustomers) = <<9500, 7200, 3900, 9100>>
  /\ viewQuery = [Unfiltered("") EXCEPT !.activeFilter = "critical"]
  /\ ScoresOf(viewFiltered) = <<9500, 9100>>


\* how often x occurs in a sequence
Count(seq, x) == Cardinality({i \in 1..Len(seq) : seq[i] = x})

\* two sequences hold the same elements the same number of times
IsPermutation(a, b) ==
  /\ Len(a) = Len(b)
  /\ \A i \in 1..Len(a) : Count(a, a[i]) = Count(b, a[i])

\* C24: for the same entities, filters and search text, the views for any two
\* sort keys are permutations of each other.
C24_SortKeepsMembers ==
  viewPhase # "idle" =>
    \A key \in ViewSortValues :
      IsPermutation(viewFiltered,
                    computeView(viewCustomers, [viewQuery EXCEPT !.sortType = key]))

\* a filtered view of several entities whose order under lowest-risk is not
\* the order under probability-desc
C24_Witness ==
  /\ viewPhase = "ran"
  /\ viewQuery.sortType = "lowest-risk"
  /\ viewQuery.activeFilter = "critical"
  /\ Len(viewFiltered) = 2
  /\ Len(viewCustomers) = 4
  /\ viewFiltered #
       computeView(viewCustomers, [viewQuery EXCEPT !.sortType = "probability-desc"])


InputOrder ==
  LET InView(c) == \E i \in 1..Len(viewFiltered) : viewFiltered[i] = c
  IN SelectSeq(viewCustomers, InView)

\* the entities of a sequence that have the score x, in their order
WithScore(entities, x) ==
  LET HasScore(c) == c.churn_probability = x
  IN SelectSeq(entities, HasScore)

IdNumber(id) ==
  CASE id \in {EntityId(1), PlaceholderId(0)} -> 1
    [] id \in {EntityId(2), PlaceholderId(1), Txt_C2, Txt_c2} -> 2
    [] id \in {EntityId(3), PlaceholderId(2)} -> 3
    [] id \in {EntityId(4), PlaceholderId(3)} -> 4
    [] id \in {EntityId(11), Txt_c11} -> 11
    [] id = Txt_E -> 0

\* C27: under id-asc the view is ordered by the integer value of the first
\* run of digits of the id, an id without digits counting as 0; entities with
\* the same number are ordered by the comparison of their whole ids.
\* entity-11, entity-2, entity-1 comes out as entity-1, entity-2, entity-11.
C27_IdAscending ==
  (viewPhase # "idle" /\ viewQuery.sortType = "id-asc") =>
    /\ \A i \in 1..Len(viewFiltered), j \in 1..Len(viewFiltered) :
         i < j =>
           \/ IdNumber(viewFiltered[i].id) < IdNumber(viewFiltered[j].id)
           \/ /\ IdNumber(viewFiltered[i].id) = IdNumber(viewFiltered[j].id)
              /\ LocaleCompare(viewFiltered[i].id, viewFiltered[j].id) <= 0
    /\ (IdsOf(viewCustomers) = <<EntityId(11), EntityId(2), EntityId(1)>>
          /\ viewQuery = Unfiltered("id-asc"))
         => IdsOf(viewFiltered) = <<EntityId(1), EntityId(2), EntityId(11)>>

\* entity-11, entity-2, entity-1 was ordered entity-1, entity-2, entity-11
C27_Witness ==
  /\ viewPhase = "ran"
  /\ viewQuery = Unfiltered("id-asc")
  /\ IdsOf(viewCustomers) = <<EntityId(11), EntityId(2), EntityId(1)>>
  /\ IdsOf(viewFiltered) = <<EntityId(1), EntityId(2), EntityId(11)>>


\* two texts are equal when the case of their letters is ignored
EqualIgnoringCase(a, b) ==
  LET SameLetter(x, y) ==
        \/ x = y
        \/ x \in DOMAIN UpperToLower /\ UpperToLower[x] = y
        \/ y \in DOMAIN UpperToLower /\ UpperToLower[y] = x
  IN Len(a) = Len(b) /\ \A i \in 1..Len(a) : SameLetter(a[i], b[i])

\* the region of an entity, which is read from its feature values
RegionOf(c) ==
  IF "Region" \in DOMAIN c.feature_values THEN c.feature_values.Region
  ELSE IF "region" \in DOMAIN c.feature_values THEN c.feature_values.region
  ELSE EmptyText

\* C28: an active plan, contract or region filter keeps exactly, of the
\* entities that pass everything else, those whose internet service, contract
\* type or region equals the filter value ignoring case; an entity without
\* the field is dropped. An empty category filter drops nothing.
C28_CategoryFilters ==
  viewPhase # "idle" =>
    LET Matches(field, value) ==
          value = EmptyText \/ (field # EmptyText /\ EqualIgnoringCase(field, value))
        PlanMatches(c) == Matches(c.internet_service, viewQuery.planTypeFilter)
        ContractMatches(c) == Matches(c.contract_type, viewQuery.contractTypeFilter)
        RegionMatches(c) == Matches(RegionOf(c), viewQuery.regionFilter)
    IN /\ viewFiltered =
            SelectSeq(computeView(viewCustomers, [viewQuery EXCEPT !.planTypeFilter = EmptyText]),
                      PlanMatches)
       /\ viewFiltered =
            SelectSeq(computeView(viewCustomers,
                                  [viewQuery EXCEPT !.contractTypeFilter = EmptyText]),
                      ContractMatches)
       /\ viewFiltered =
            SelectSeq(computeView(viewCustomers, [viewQuery EXCEPT !.regionFilter = EmptyText]),
                      RegionMatches)

\* the contract filter M on an entity without contract, one with the contract
\* m and one with the contract M kept the last two
C28_Witness ==
  /\ viewPhase = "ran"
  /\ viewQuery = [Unfiltered("") EXCEPT !.contractTypeFilter = Txt_M]
  /\ IdsOf(viewCustomers) = <<Txt_c11, Txt_c2, Txt_C2>>
  /\ viewCustomers[1].contract_type = EmptyText
  /\ viewCustomers[2].contract_type = Txt_m
  /\ viewCustomers[3].contract_type = Txt_M
  /\ IdsOf(viewFiltered) = <<Txt_c2, Txt_C2>>


\* C29: a non-empty search text keeps exactly, of the entities that pass the
\* filters, those whose id has a stretch of characters equal to the search
\* text ignoring case; no other field of an entity has a say.
C29_SearchById ==
  viewPhase # "idle" =>
    LET text == viewQuery.searchQuery
        IdContains(c) ==
          \/ text = EmptyText
          \/ \E k \in 1..Len(c.id) :
               /\ k + Len(text) - 1 <= Len(c.id)
               /\ EqualIgnoringCase(SubSeq(c.id, k, k + Len(text) - 1), text)
    IN viewFiltered =
         SelectSeq(computeView(viewCustomers, [viewQuery EXCEPT !.searchQuery = EmptyText]),
                   IdContains)

\* the search text C-2 kept the entities c-2 and C-2 and dropped c-11, whose
\* reason text is M like the contract type of C-2
C29_Witness ==
  /\ viewPhase = "ran"
  /\ viewQuery = [Unfiltered("") EXCEPT !.searchQuery = Txt_C2]
  /\ IdsOf(viewCustomers) = <<Txt_c11, Txt_c2, Txt_C2>>
  /\ viewCustomers[3].contract_type = Txt_M
  /\ IdsOf(viewFiltered) = <<Txt_c2, Txt_C2>>


\* C30: the column count is a step function of the window width w: 1 below
\* 768, 2 from 768 to below 1024, 3 from 1024 to below 1280 and 4 from 1280
\* on, whenever calculateColumns has run for the current width; it is always
\* one of 1, 2, 3, 4.
C30_ColumnSteps ==
  LET w == innerWidth
      Step == CASE w < 768 -> 1
                [] 768 <= w /\ w < 1024 -> 2
                [] 1024 <= w /\ w < 1280 -> 3
                [] w >= 1280 -> 4
  IN /\ columnCount \in 1..4
     /\ ~resizeTimeout => columnCount = Step

\* a window resized to 767 pixels has one column
C30_Witness ==
  /\ innerWidth = 767
  /\ ~resizeTimeout
  /\ columnCount = 1
  /\ lastReset = 0
  /\ Len(customers) = 5
  /\ Len(cachedHeights) = 1


\* C31: a status check answered with 404 sets the task-not-found error,
\* whatever the body of the answer, and ends polling: interval cancelled,
\* loading false, taskId cleared; no other answer to a status check sets
\* that error.
C31_TaskNotFound ==
  [][\A t \in Tasks, o \in StatusOutcomes :
       (mounted /\ StatusResponse(t, o))
         => IF o.kind = "http404"
            THEN /\ error' = TaskNotFoundMessage
                 /\ intervals' = {}
                 /\ loading' = FALSE
                 /\ taskId' = NoTask
                 /\ pollingIntervalRef' = NoHandle
            ELSE error' # error => error' # TaskNotFoundMessage]_vars

\* the polled job was answered with 404
C31_Witness ==
  /\ error = TaskNotFoundMessage
  /\ mounted
  /\ uploadsStarted = 1
  /\ statusInFlight[1] = 0
  /\ taskId = NoTask
  /\ intervals = {}
  /\ ~loading


\* C32: at most one status check of a job is outstanding at any time: the
\* interval callback issues no check while the answer to the previous check
\* of the job it polls has not arrived.
C32_SingleCheckInFlight ==
  \A t \in Tasks : statusInFlight[t] <= 1


\* C33: the id of normalized entity i (0-based) is the raw id of entry i when
\* the entry has one, and otherwise customer-(i+1); feature_values and
\* shap_feature_values are the ones customer_insights holds under that id,
\* and empty mappings when it holds none.
C33_ResolvedId ==
  normalizeReturned =>
    \A i \in 1..Len(normalized) :
      LET raw == rawResult.customer_churn[i]
          id == IF raw.id # EmptyText THEN raw.id ELSE <<"c", "-">> \o DecimalText(i)
          insights == rawResult.customer_insights
      IN /\ normalized[i].id = id
         /\ normalized[i].feature_values =
              IF id \in DOMAIN insights THEN insights[id].feature_values ELSE << >>
         /\ normalized[i].shap_feature_values =
              IF id \in DOMAIN insights THEN insights[id].shap_feature_values ELSE << >>

\* the second entry has no id: the entity is customer-2 and takes the
\* insights stored under customer-2; the first has no id and no insights
C33_Witness ==
  /\ normalizeReturned
  /\ Len(normalized) = 2
  /\ rawResult.customer_churn[1].id = EmptyText
  /\ rawResult.customer_churn[2].id = EmptyText
  /\ normalized[1].id = <<"c", "-", "1">>
  /\ normalized[1].feature_values = << >>
  /\ normalized[2].id = <<"c", "-", "2">>
  /\ normalized[2].feature_values = [contract |-> <<"m">>]
  /\ normalized[2].shap_feature_values = [contract |-> <<"3">>]


\* C34: when the backend answers every status check of a job with done, then
\* from the moment polling starts for the job, and while the provider stays
\* mounted, results comes to hold the job's result with loading false, also
\* when checks of an earlier job are answered after the job has started.
C34_DoneIsDelivered ==
  (mounted /\ taskId = DoneJob) ~> (~mounted \/ (results = DoneJob /\ ~loading))

\* the job's result is shown while a check of the earlier job is unanswered
C34_Witness ==
  /\ mounted
  /\ results = DoneJob
  /\ ~loading
  /\ uploadsStarted = MaxUploads
  /\ \E t \in Tasks \ {DoneJob} : statusInFlight[t] > 0


\* C35: results and error are never both set.
C35_ResultsXorError == ~(results # NoResult /\ error # NULL)


\* C36: loading is true whenever a submission is in flight or an interval is
\* live, and it turns false only in a terminal step of the job being
\* submitted or polled: the answer to the last upload's submission, an answer
\* to a status check of the polled job, or a tick of its interval.
C36_LoadingWhileOutstanding ==
  /\ []((submitInFlight # {} \/ intervals # {}) => loading)
  /\ [][(loading /\ ~loading')
          => \/ \E o \in SubmitOutcomes : SubmitResponse(uploadsStarted, o)
             \/ taskId # NoTask /\ \E o \in StatusOutcomes : StatusResponse(taskId, o)
             \/ taskId # NoTask /\ IsTick]_vars


\* C37: when the submission of one upload is accepted while the accepted job
\* of another upload is being polled, the job polled afterwards is the one of
\* the more recent upload, whichever submission was answered first.
C37_LatestUploadPolled ==
  [][\A k \in Tasks :
       (/\ mounted
        /\ taskId # NoTask /\ taskId # k
        /\ SubmitResponse(k, [kind |-> "ok", status |-> "", detail |-> ""]))
         => taskId' = IF k > taskId THEN k ELSE taskId]_vars


\* C38: the rows partition the view. With n entities in c columns there are
\* ceil(n/c) rows; row r holds, in order, the entities at the indices
\* r*c .. min(r*c+c, n)-1; every entity is in exactly one row, exactly once;
\* no row is empty; the empty view has no rows and no list is rendered.
C38_RowsPartitionView ==
  LET n == Len(customers)
      c == columnCount
      rows == rowCount(customers, c)
      row(r) == Row(customers, c, r)
  IN /\ rows * c >= n /\ (n > 0 => (rows - 1) * c < n)
     /\ \A r \in 0..(rows - 1) :
          /\ Len(row(r)) = Min(r * c + c, n) - r * c
          /\ Len(row(r)) > 0
          /\ \A k \in 1..Len(row(r)) : row(r)[k] = r * c + k - 1
     /\ \A i \in 0..(n - 1) :
          Cardinality({rk \in (0..(rows - 1)) \X (1..c) :
                         rk[2] <= Len(row(rk[1])) /\ row(rk[1])[rk[2]] = i}) = 1
     /\ n = 0 => rows = 0 /\ ~listMounted
     /\ n > 0 => listMounted

\* nine entities in four columns, scrolled to the last row, which holds the
\* ninth entity alone
C38_Witness ==
  /\ Len(customers) = 9
  /\ columnCount = 4
  /\ listMounted
  /\ visibleStop = 2
  /\ rowCount(customers, columnCount) = 3
  /\ Row(customers, columnCount, 2) = <<8>>


\* C39: the risk distribution of calculateKPIs counts every normalized
\* entity in exactly one bucket: critical + high + medium + low is
\* totalCustomers, the number of entities, and critical equals criticalRisks.
C39_BucketsSumToTotal ==
  normalizeReturned =>
    LET kpis == calculateKPIs(normalized)
        buckets == kpis.riskDistribution
    IN /\ kpis.totalCustomers = Len(normalized)
       /\ buckets.critical + buckets.high + buckets.medium + buckets.low
            = kpis.totalCustomers
       /\ buckets.critical = kpis.criticalRisks

\* one entity at 90, counted critical, and one just below, counted high
C39_Witness ==
  /\ normalizeReturned
  /\ Len(normalized) = 2
  /\ normalized[1].churn_probability = 9000
  /\ normalized[2].churn_probability = 8999
  /\ calculateKPIs(normalized).riskDistribution =
       [critical |-> 1, high |-> 1, medium |-> 0, low |-> 0]
  /\ calculateKPIs(normalized).criticalRisks = 1

====
